---- MODULE Spec2Model ----
(***************************************************************************)
(* yellowpages: the dependency-graph engine (deps.ts) and the circular     *)
(* dependency check of the catalog linter (commands/lint.ts).              *)
(*                                                                         *)
(* The functions are pure: each specification draws a catalog (the array   *)
(* of services a command reads with readAll) from a bounded set and its    *)
(* actions apply the functions to it, leaving the call and its result in   *)
(* the state.                                                              *)
(***************************************************************************)
EXTENDS Integers, Sequences, FiniteSets, TLC

VARIABLES
  services,   \* the services collection, in the order readAll lists it: Service[]
  systems,    \* the systems collection: System[]
  owners,     \* the owners collection: Owner[]
  discoverable, \* what the sources of discover hold: DiscoveredService[]
  stats,      \* search index: mtimeMs and size of each catalog file, by path
  cache,      \* search index: the files .search-hash and .search-index.json
  now,        \* the clock new Date() reads
  run,        \* stepwise runLintChecks: its position and what it has collected
  call,       \* the last call: [op |-> ..., and its arguments]
  ret,        \* what the call returned
  frames,     \* stepwise walk: the recursion stack of walkDown / walkUp
  visited,    \* stepwise walk: the visited set shared by the whole walk
  pairs       \* findCircularDeps: per finding, the origin id and the id the walk met again

vars == <<services, systems, owners, discoverable, stats, cache, now, run, call, ret, frames, visited, pairs>>

----------------------------------------------------------------------------
(* Bounds *)

\* graph-engine specifications
MaxServices == 3
MaxDeps == 2
MaxEdges == 3
MaxDepthArg == 4
\* frames the engine's call stack holds before a call throws RangeError
StackLimit == 6
\* trees of the downward walk
TreeServices == 4
TreeDeps == 2
TreeEdges == 4

\* DepthSpec: services, dependencies per service and in all
DepthServices == 5
DepthDeps == 2
DepthEdges == 5
\* linter specification
LintServices == 4
LintDeps == 2
LintEdges == 4
\* the linter's checks over the three collections
CheckServices == 2
CheckSystems == 2
CheckOwners == 2
CheckRecords == 3
CheckDeps == 2
CheckEdges == 2
\* records of the catalogs runLintChecks is executed step by step on
RunRecords == 2
\* services of the collections resolveId searches
ResolveServices == 3
\* services of the catalogs discover runs on, services its sources hold in
\* all, and runs of discover in a row
DiscoverServices == 1
DiscoverFound == 2
MaxRuns == 2
\* services, systems and owners of the catalogs owners are removed from, and
\* commands in a row
OwnedServices == 2
OwnedSystems == 1
OwnedOwners == 2
OwnerSteps == 3
\* services of the catalogs the search index is built on, and the last tick
\* of the file system's clock
SearchServices == 1
MaxClock == 2

----------------------------------------------------------------------------
(* Values *)

\* An optional value (x?: T): absent is <<>>, present is <<x>>.
None == <<>>
Some(x) == <<x>>

\* a ?? b
OrElse(o, dflt) == IF o = None THEN dflt ELSE o[1]

\* Service ids as the store names them ("s1" < "s2" < ... as strings), and a
\* string that is the id of no service.
ServiceId(i) == "s" \o ToString(i)
ServiceName(i) == "svc-" \o ToString(i)
Ghost == "ghost"

\* Position of a string in JavaScript's default sort order (UTF-16 code
\* units): "ghost" < "s1" < "s2" < ...
StrOrd(s) == IF s = Ghost THEN 0 ELSE CHOOSE i \in 1..9 : ServiceId(i) = s

\* The edge annotations of the j-th dependency of the i-th service: distinct
\* markers, each optional field present on some edges and absent on others.
DepApi(i, j) == IF j % 2 = 1 THEN Some("api-" \o ToString(i) \o ToString(j)) ELSE None
DepDescription(i, j) == IF i % 2 = 1 THEN Some("why-" \o ToString(i) \o ToString(j)) ELSE None

\* Dependency { service, api?, description? }
Dependency(i, j, target) ==
  [service |-> target, api |-> DepApi(i, j), description |-> DepDescription(i, j)]

\* Service { id, name, dependsOn? }
Service(i, dependsOn) ==
  [id |-> ServiceId(i), name |-> ServiceName(i), dependsOn |-> dependsOn]

\* The shape of a dependsOn field with at most `most` dependencies on the
\* given targets: absent, or the list of its targets.
DependsOnShapes(targets, most) ==
  {None} \cup { Some(t) : t \in UNION { [1..k -> targets] : k \in 0..most } }

\* The i-th service of a catalog, its dependsOn of the given shape
ServiceOf(i, shape) ==
  Service(i, IF shape = None THEN None
             ELSE Some([j \in DOMAIN shape[1] |-> Dependency(i, j, shape[1][j])]))

\* The ids of a catalog of k services
CatalogIds(k) == {ServiceId(i) : i \in 1..k}

Min2(a, b) == IF a <= b THEN a ELSE b

\* The dependsOn shapes of services numbered from..k, at most perService
\* dependencies each and `budget` in all.
RECURSIVE ShapesFrom(_, _, _, _, _)
ShapesFrom(from, k, targets, perService, budget) ==
  IF from > k THEN {<<>>}
  ELSE UNION { { <<shape>> \o rest
                 : rest \in ShapesFrom(from + 1, k, targets, perService,
                                       budget - Len(OrElse(shape, <<>>))) }
               : shape \in DependsOnShapes(targets, Min2(perService, budget)) }

\* svcs is a catalog of at most n services with at most perService
\* dependencies each and `budget` in all; a dependency targets a service of
\* the catalog (itself included) or a missing id.
IsCatalog(svcs, n, perService, budget) ==
  \E k \in 0..n :
    \E shapes \in ShapesFrom(1, k, CatalogIds(k) \cup {Ghost}, perService, budget) :
      svcs = [i \in 1..k |-> ServiceOf(i, shapes[i])]

\* A JavaScript number used as maxDepth: an integer, NaN, Infinity, -Infinity.
IntNum(n) == [kind |-> "int", n |-> n]
NaN == [kind |-> "nan", n |-> 0]
PosInfinity == [kind |-> "inf", n |-> 1]
NegInfinity == [kind |-> "inf", n |-> -1]

\* GreaterEq with d > maxDepth for d >= maxDepth
GreaterEqOffByOne(d, maxDepth) ==
  CASE maxDepth.kind = "int" -> d > maxDepth.n
    [] maxDepth.kind = "nan" -> FALSE
    [] maxDepth.kind = "inf" -> maxDepth.n < 0

\* GreaterEq with the limit applied only when positive (maxDepth > 0 && d >= maxDepth)
GreaterEqOnlyPositive(d, maxDepth) ==
  CASE maxDepth.kind = "int" -> maxDepth.n > 0 /\ d >= maxDepth.n
    [] maxDepth.kind = "nan" -> FALSE
    [] maxDepth.kind = "inf" -> FALSE

\* d >= maxDepth, d an integer
GreaterEq(d, maxDepth) ==
  CASE maxDepth.kind = "int" -> d >= maxDepth.n
    [] maxDepth.kind = "nan" -> FALSE
    [] maxDepth.kind = "inf" -> maxDepth.n < 0

\* maxDepth <= 0
NonPositive(maxDepth) ==
  CASE maxDepth.kind = "int" -> maxDepth.n <= 0
    [] maxDepth.kind = "nan" -> FALSE
    [] maxDepth.kind = "inf" -> maxDepth.n < 0

DepthArgs == {IntNum(n) : n \in -1..MaxDepthArg} \cup {NaN, PosInfinity, NegInfinity}

Directions == {"up", "down", "undefined"}

----------------------------------------------------------------------------
(* deps.ts *)

\* new Map(services.map((s) => [s.id, s])): a later entry replaces an earlier
\* one with the same key.
ServiceMapOf(svcs) ==
  [id \in {svcs[k].id : k \in DOMAIN svcs} |->
     svcs[CHOOSE k \in DOMAIN svcs :
            /\ svcs[k].id = id
            /\ \A m \in DOMAIN svcs : svcs[m].id = id => m <= k]]

\* map.get(key): undefined when the key is absent
MapGet(map, key) == IF key \in DOMAIN map THEN Some(map[key]) ELSE None

\* ReversePush with reverse.set(dep.service, [entry]): the list is replaced
ReversePushOverwrite(reverse, s, dep) ==
  LET entry == [service |-> s, api |-> dep.api, description |-> dep.description]
  IN [k \in DOMAIN reverse \cup {dep.service} |->
        IF k = dep.service THEN <<entry>> ELSE reverse[k]]

\* One pass of the inner loop of buildReverseIndex: list = reverse.get(dep.service) ?? [];
\* list.push({service: s, api, description}); reverse.set(dep.service, list)
ReversePush(reverse, s, dep) ==
  LET list == OrElse(MapGet(reverse, dep.service), <<>>)
      entry == [service |-> s, api |-> dep.api, description |-> dep.description]
  IN [k \in DOMAIN reverse \cup {dep.service} |->
        IF k = dep.service THEN Append(list, entry) ELSE reverse[k]]

RECURSIVE ReverseOverDeps(_, _, _, _)
ReverseOverDeps(reverse, s, deps, j) ==
  IF j > Len(deps) THEN reverse
  ELSE ReverseOverDeps(ReversePush(reverse, s, deps[j]), s, deps, j + 1)

RECURSIVE ReverseOverServices(_, _, _)
ReverseOverServices(reverse, svcs, i) ==
  IF i > Len(svcs) THEN reverse
  ELSE ReverseOverServices(
         ReverseOverDeps(reverse, svcs[i], OrElse(svcs[i].dependsOn, <<>>), 1),
         svcs, i + 1)

\* buildReverseIndex(services): Map<serviceId, {service, api?, description?}[]>
buildReverseIndex(svcs) == ReverseOverServices(<<>>, svcs, 1)

\* A DepNode { id, name, api?, description?, children }
DepNode(id, name, api, description, children) ==
  [id |-> id, name |-> name, api |-> api, description |-> description,
   children |-> children]

\* walkDown and the callback of its .map share the visited set v, which the
\* recursive calls extend in place: each returns the nodes and the set as the
\* call left it.
RECURSIVE walkDown(_, _, _, _, _)
RECURSIVE WalkDownMap(_, _, _, _, _, _, _)

\* WalkDownBody that adds the targets of the service to the visited set along
\* with the service: a target is marked when met, before it is walked
WalkDownBodyMarkingTargets(serviceId, serviceMap, maxDepth, v, d) ==
  IF GreaterEq(d, maxDepth) \/ serviceId \in v
  THEN [nodes |-> <<>>, visited |-> v]
  ELSE LET service == MapGet(serviceMap, serviceId)
           deps == IF service = None THEN <<>> ELSE OrElse(service[1].dependsOn, <<>>)
           v1 == v \cup {serviceId} \cup {deps[j].service : j \in DOMAIN deps}
       IN WalkDownMap(deps, 1, serviceMap, maxDepth, v1, d, <<>>)

\* walkDown, from d >= maxDepth on (lines 51-66)
WalkDownBody(serviceId, serviceMap, maxDepth, v, d) ==
  IF GreaterEq(d, maxDepth) \/ serviceId \in v
  THEN [nodes |-> <<>>, visited |-> v]
  ELSE LET v1 == v \cup {serviceId}
           service == MapGet(serviceMap, serviceId)
       IN IF service = None
          THEN [nodes |-> <<>>, visited |-> v1]
          ELSE WalkDownMap(OrElse(service[1].dependsOn, <<>>), 1, serviceMap,
                           maxDepth, v1, d, <<>>)

\* walkDown(serviceId, serviceMap, maxDepth, visited?, depth?)
walkDown(serviceId, serviceMap, maxDepth, visitedArg, depthArg) ==
  WalkDownBody(serviceId, serviceMap, maxDepth, OrElse(visitedArg, {}),
               OrElse(depthArg, 0))

\* WalkDownMap whose recursive calls each get a copy of the visited set
\* (new Set(v)): what one sibling visits the next does not see
RECURSIVE WalkDownMapUnshared(_, _, _, _, _, _, _)
WalkDownMapUnshared(deps, j, serviceMap, maxDepth, v, d, acc) ==
  IF j > Len(deps) THEN [nodes |-> acc, visited |-> v]
  ELSE LET dep == deps[j]
           target == MapGet(serviceMap, dep.service)
           sub == walkDown(dep.service, serviceMap, maxDepth, Some(v), Some(d + 1))
           node == DepNode(dep.service,
                           IF target = None THEN dep.service ELSE target[1].name,
                           dep.api, dep.description, sub.nodes)
       IN WalkDownMapUnshared(deps, j + 1, serviceMap, maxDepth, v, d,
                              Append(acc, node))

\* (service.dependsOn ?? []).map((dep) => {...}), from its j-th element on
WalkDownMap(deps, j, serviceMap, maxDepth, v, d, acc) ==
  IF j > Len(deps) THEN [nodes |-> acc, visited |-> v]
  ELSE LET dep == deps[j]
           target == MapGet(serviceMap, dep.service)
           sub == walkDown(dep.service, serviceMap, maxDepth, Some(v), Some(d + 1))
           node == DepNode(dep.service,
                           IF target = None THEN dep.service ELSE target[1].name,
                           dep.api, dep.description, sub.nodes)
       IN WalkDownMap(deps, j + 1, serviceMap, maxDepth, sub.visited, d,
                      Append(acc, node))

RECURSIVE walkUp(_, _, _, _, _)
RECURSIVE WalkUpMap(_, _, _, _, _, _, _)

\* walkUp, from d >= maxDepth on (lines 85-95)
WalkUpBody(serviceId, reverseIndex, maxDepth, v, d) ==
  IF GreaterEq(d, maxDepth) \/ serviceId \in v
  THEN [nodes |-> <<>>, visited |-> v]
  ELSE WalkUpMap(OrElse(MapGet(reverseIndex, serviceId), <<>>), 1, reverseIndex,
                 maxDepth, v \cup {serviceId}, d, <<>>)

\* walkUp(serviceId, reverseIndex, maxDepth, visited?, depth?)
walkUp(serviceId, reverseIndex, maxDepth, visitedArg, depthArg) ==
  WalkUpBody(serviceId, reverseIndex, maxDepth, OrElse(visitedArg, {}),
             OrElse(depthArg, 0))

\* WalkUpMap whose recursive calls each get a copy of the visited set
RECURSIVE WalkUpMapUnshared(_, _, _, _, _, _, _)
WalkUpMapUnshared(dependents, j, reverseIndex, maxDepth, v, d, acc) ==
  IF j > Len(dependents) THEN [nodes |-> acc, visited |-> v]
  ELSE LET dep == dependents[j]
           sub == walkUp(dep.service.id, reverseIndex, maxDepth, Some(v), Some(d + 1))
           node == DepNode(dep.service.id, dep.service.name, dep.api,
                           dep.description, sub.nodes)
       IN WalkUpMapUnshared(dependents, j + 1, reverseIndex, maxDepth, v, d,
                            Append(acc, node))

\* dependents.map((dep) => ({...})), from its j-th element on
WalkUpMap(dependents, j, reverseIndex, maxDepth, v, d, acc) ==
  IF j > Len(dependents) THEN [nodes |-> acc, visited |-> v]
  ELSE LET dep == dependents[j]
           sub == walkUp(dep.service.id, reverseIndex, maxDepth, Some(v), Some(d + 1))
           node == DepNode(dep.service.id, dep.service.name, dep.api,
                           dep.description, sub.nodes)
       IN WalkUpMap(dependents, j + 1, reverseIndex, maxDepth, sub.visited, d,
                    Append(acc, node))

\* IsOrphan with || for &&
IsOrphanEither(s, reverseIndex) ==
  LET hasDepsDown == Len(OrElse(s.dependsOn, <<>>)) > 0
      hasDepsUp == Len(OrElse(MapGet(reverseIndex, s.id), <<>>)) > 0
  IN ~hasDepsDown \/ ~hasDepsUp

\* The filter of findOrphans
IsOrphan(s, reverseIndex) ==
  LET hasDepsDown == Len(OrElse(s.dependsOn, <<>>)) > 0
      hasDepsUp == Len(OrElse(MapGet(reverseIndex, s.id), <<>>)) > 0
  IN ~hasDepsDown /\ ~hasDepsUp

\* findOrphans that filters against an empty reverse index
findOrphansWithoutIndex(svcs) ==
  SelectSeq(svcs, LAMBDA s : IsOrphan(s, <<>>))

\* findOrphans(services)
findOrphans(svcs) ==
  LET reverseIndex == buildReverseIndex(svcs)
  IN SelectSeq(svcs, LAMBDA s : IsOrphan(s, reverseIndex))

\* resolveDeps whose downward walk gets the visited set of the upward walk
resolveDepsSharedVisited(serviceId, svcs, maxDepth, direction) ==
  LET serviceMap == ServiceMapOf(svcs)
      reverseIndex == buildReverseIndex(svcs)
      service == MapGet(serviceMap, serviceId)
      up == IF direction = "down" THEN [nodes |-> <<>>, visited |-> {}]
            ELSE walkUp(serviceId, reverseIndex, maxDepth, None, None)
  IN [service |-> [id |-> serviceId,
                   name |-> IF service = None THEN serviceId ELSE service[1].name],
      dependents |-> up.nodes,
      dependencies |-> IF direction = "up" THEN <<>>
                       ELSE walkDown(serviceId, serviceMap, maxDepth,
                                     Some(up.visited), None).nodes]

\* resolveDeps with the two direction tests exchanged
resolveDepsSwapped(serviceId, svcs, maxDepth, direction) ==
  LET serviceMap == ServiceMapOf(svcs)
      reverseIndex == buildReverseIndex(svcs)
      service == MapGet(serviceMap, serviceId)
  IN [service |-> [id |-> serviceId,
                   name |-> IF service = None THEN serviceId ELSE service[1].name],
      dependents |-> IF direction = "up" THEN <<>>
                     ELSE walkUp(serviceId, reverseIndex, maxDepth, None, None).nodes,
      dependencies |-> IF direction = "down" THEN <<>>
                       ELSE walkDown(serviceId, serviceMap, maxDepth, None, None).nodes]

\* resolveDeps that walks down from the first service when the id is unknown
\* (serviceMap.get(serviceId) ?? services[0])
resolveDepsDefaultsToFirst(serviceId, svcs, maxDepth, direction) ==
  LET serviceMap == ServiceMapOf(svcs)
      reverseIndex == buildReverseIndex(svcs)
      service == MapGet(serviceMap, serviceId)
      from == IF service = None /\ svcs # <<>> THEN svcs[1].id ELSE serviceId
  IN [service |-> [id |-> serviceId,
                   name |-> IF service = None THEN serviceId ELSE service[1].name],
      dependents |-> IF direction = "down" THEN <<>>
                     ELSE walkUp(serviceId, reverseIndex, maxDepth, None, None).nodes,
      dependencies |-> IF direction = "up" THEN <<>>
                       ELSE walkDown(from, serviceMap, maxDepth, None, None).nodes]

\* resolveDeps(serviceId, services, maxDepth, direction?)
resolveDeps(serviceId, svcs, maxDepth, direction) ==
  LET serviceMap == ServiceMapOf(svcs)
      reverseIndex == buildReverseIndex(svcs)
      service == MapGet(serviceMap, serviceId)
  IN [service |-> [id |-> serviceId,
                   name |-> IF service = None THEN serviceId ELSE service[1].name],
      dependents |-> IF direction = "down" THEN <<>>
                     ELSE walkUp(serviceId, reverseIndex, maxDepth, None, None).nodes,
      dependencies |-> IF direction = "up" THEN <<>>
                       ELSE walkDown(serviceId, serviceMap, maxDepth, None, None).nodes]

----------------------------------------------------------------------------
(* Spec: the graph engine applied to a catalog *)

\* One invocation of the program makes one query of the catalog it read.
NoCall == [op |-> "none"]
Fresh == call = NoCall

\* Ids a caller may pass: those of the catalog's services and a missing one.
IdsOf(svcs) == {svcs[k].id : k \in DOMAIN svcs}
RootArgs == IdsOf(services) \cup {Ghost}

NoRun == [pc |-> "none"]

\* Nothing for discover to find, in the GitHub organisation or the directory
NothingDiscoverable == [github |-> <<>>, dir |-> <<>>]

Idle == /\ frames = <<>>
        /\ visited = {}
        /\ pairs = <<>>
        /\ discoverable = NothingDiscoverable
        /\ stats = <<>>
        /\ cache = None
        /\ now = 0
        /\ run = NoRun

Init ==
  /\ IsCatalog(services, MaxServices, MaxDeps, MaxEdges)
  /\ systems = <<>>
  /\ owners = <<>>
  /\ call = NoCall
  /\ ret = <<>>
  /\ Idle

BuildReverseIndex ==
  /\ Fresh
  /\ call' = [op |-> "buildReverseIndex"]
  /\ ret' = buildReverseIndex(services)
  /\ UNCHANGED <<services, systems, owners, discoverable, stats, cache, now, run, frames, visited, pairs>>

WalkDown ==
  /\ Fresh
  /\ \E id \in RootArgs, maxDepth \in DepthArgs :
    /\ call' = [op |-> "walkDown", id |-> id, maxDepth |-> maxDepth]
    /\ ret' = walkDown(id, ServiceMapOf(services), maxDepth, None, None).nodes
    /\ UNCHANGED <<services, systems, owners, discoverable, stats, cache, now, run, frames, visited, pairs>>

WalkUp ==
  /\ Fresh
  /\ \E id \in RootArgs, maxDepth \in DepthArgs :
    /\ call' = [op |-> "walkUp", id |-> id, maxDepth |-> maxDepth]
    /\ ret' = walkUp(id, buildReverseIndex(services), maxDepth, None, None).nodes
    /\ UNCHANGED <<services, systems, owners, discoverable, stats, cache, now, run, frames, visited, pairs>>

FindOrphans ==
  /\ Fresh
  /\ call' = [op |-> "findOrphans"]
  /\ ret' = findOrphans(services)
  /\ UNCHANGED <<services, systems, owners, discoverable, stats, cache, now, run, frames, visited, pairs>>

ResolveDeps ==
  /\ Fresh
  /\ \E id \in RootArgs, maxDepth \in DepthArgs, direction \in Directions :
    /\ call' = [op |-> "resolveDeps", id |-> id, maxDepth |-> maxDepth,
                direction |-> direction]
    /\ ret' = resolveDeps(id, services, maxDepth, direction)
    /\ UNCHANGED <<services, systems, owners, discoverable, stats, cache, now, run, frames, visited, pairs>>

Next ==
  \/ BuildReverseIndex
  \/ WalkDown
  \/ WalkUp
  \/ FindOrphans
  \/ ResolveDeps

Spec == Init /\ [][Next]_vars

----------------------------------------------------------------------------
(* TreeSpec: walkDown applied to catalogs large enough to hold a diamond *)

TreeInit ==
  /\ IsCatalog(services, TreeServices, TreeDeps, TreeEdges)
  /\ systems = <<>>
  /\ owners = <<>>
  /\ call = NoCall
  /\ ret = <<>>
  /\ Idle

TreeNext ==
  \/ WalkDown

TreeSpec == TreeInit /\ [][TreeNext]_vars

----------------------------------------------------------------------------
(* DepthSpec: walkDown and walkUp applied to catalogs in which every       *)
(* service was added after the services it depends on                      *)

\* The dependsOn shapes of services numbered from..k, each depending on
\* services numbered below it only, at most perService dependencies each and
\* `budget` in all.
RECURSIVE ShapesInOrder(_, _, _, _)
ShapesInOrder(from, k, perService, budget) ==
  IF from > k THEN {<<>>}
  ELSE UNION { { <<shape>> \o rest
                 : rest \in ShapesInOrder(from + 1, k, perService,
                                          budget - Len(OrElse(shape, <<>>))) }
               : shape \in DependsOnShapes(CatalogIds(from - 1),
                                           Min2(perService, budget)) }

DepthInit ==
  /\ \E k \in 0..DepthServices :
       \E shapes \in ShapesInOrder(1, k, DepthDeps, DepthEdges) :
         services = [i \in 1..k |-> ServiceOf(i, shapes[i])]
  /\ systems = <<>>
  /\ owners = <<>>
  /\ call = NoCall
  /\ ret = <<>>
  /\ Idle

DepthNext ==
  \/ WalkDown
  \/ WalkUp

DepthSpec == DepthInit /\ [][DepthNext]_vars

----------------------------------------------------------------------------
(* WalkSpec: walkDown and walkUp executed call by call.  A frame is one    *)
(* invocation: at "entry" it has yet to run lines 48-55 (82-88), at "map"  *)
(* it is in the .map over `list`, about to handle element j, with the      *)
(* nodes made so far in acc.  The visited set is the one Set object every  *)
(* invocation of the walk holds a reference to.                            *)

Frame(id, d) ==
  [id |-> id, d |-> d, pc |-> "entry", list |-> <<>>, j |-> 1, acc |-> <<>>]

Top == frames[Len(frames)]
Running == call.op = "walk" /\ call.state = "running"
Returned == call.op = "walk" /\ call.state = "returned"
Threw == call.op = "walk" /\ call.state = "threw"

\* ReturnsAtOnce without the visited test
ReturnsAtOnceDepthOnly(id, d, maxDepth, v) == GreaterEq(d, maxDepth)

\* if (d >= maxDepth || v.has(serviceId)) return [];
ReturnsAtOnce(id, d, maxDepth, v) == GreaterEq(d, maxDepth) \/ id \in v

\* The list an invocation maps over: service.dependsOn ?? [] (None when
\* walkDown returns for want of the service), or
\* reverseIndex.get(serviceId) ?? [].
WalkList(dir, id) ==
  IF dir = "down"
  THEN LET service == MapGet(ServiceMapOf(services), id)
       IN IF service = None THEN None ELSE Some(OrElse(service[1].dependsOn, <<>>))
  ELSE Some(OrElse(MapGet(buildReverseIndex(services), id), <<>>))

\* The id the recursive call for an element of the list is made with
ChildId(dir, elem) == IF dir = "down" THEN elem.service ELSE elem.service.id

\* The node the callback returns for an element, given the recursive call's result
NodeFor(dir, elem, children) ==
  IF dir = "down"
  THEN LET target == MapGet(ServiceMapOf(services), elem.service)
       IN DepNode(elem.service,
                  IF target = None THEN elem.service ELSE target[1].name,
                  elem.api, elem.description, children)
  ELSE DepNode(elem.service.id, elem.service.name, elem.api, elem.description,
               children)

\* The top invocation returns `nodes`: to the callback of its caller, which
\* completes its node and moves to the next element, or to the caller of
\* the walk.
Return(nodes) ==
  IF Len(frames) = 1
  THEN /\ frames' = <<>>
       /\ ret' = nodes
       /\ call' = [call EXCEPT !.state = "returned"]
  ELSE LET parent == frames[Len(frames) - 1]
           node == NodeFor(call.dir, parent.list[parent.j], nodes)
       IN /\ frames' = Append(SubSeq(frames, 1, Len(frames) - 2),
                              [parent EXCEPT !.acc = Append(@, node),
                                             !.j = @ + 1])
          /\ UNCHANGED <<ret, call>>

\* walkDown(id, serviceMap, maxDepth) or walkUp(id, reverseIndex, maxDepth) is
\* called: d = 0, v = new Set().
WalkBegin ==
  /\ Fresh
  /\ \E dir \in {"down", "up"}, id \in RootArgs, maxDepth \in DepthArgs :
       /\ call' = [op |-> "walk", dir |-> dir, id |-> id, maxDepth |-> maxDepth,
                   state |-> "running"]
       /\ frames' = <<Frame(id, 0)>>
       /\ visited' = {}
       /\ UNCHANGED <<services, systems, owners, discoverable, stats, cache, now, run, ret, pairs>>

\* An invocation runs up to its .map: lines 51-55 of walkDown, 85-88 of walkUp.
WalkEnter ==
  /\ Running
  /\ frames # <<>>
  /\ Top.pc = "entry"
  /\ UNCHANGED <<services, systems, owners, discoverable, stats, cache, now, run, pairs>>
  /\ IF ReturnsAtOnce(Top.id, Top.d, call.maxDepth, visited)
     THEN /\ Return(<<>>)
          /\ UNCHANGED visited
     ELSE /\ visited' = visited \cup {Top.id}
          /\ LET list == WalkList(call.dir, Top.id)
             IN IF list = None
                THEN Return(<<>>)
                ELSE /\ frames' = [frames EXCEPT ![Len(frames)] =
                                     [@ EXCEPT !.pc = "map", !.list = list[1]]]
                     /\ UNCHANGED <<call, ret>>

\* The .map of an invocation: it calls walkDown / walkUp for the next element
\* (the engine throws RangeError when its stack is full), or, the list done,
\* returns the nodes.
WalkMap ==
  /\ Running
  /\ frames # <<>>
  /\ Top.pc = "map"
  /\ UNCHANGED <<services, systems, owners, discoverable, stats, cache, now, run, visited, pairs>>
  /\ IF Top.j > Len(Top.list)
     THEN Return(Top.acc)
     ELSE IF Len(frames) >= StackLimit
          THEN /\ call' = [call EXCEPT !.state = "threw"]
               /\ UNCHANGED <<frames, ret>>
          ELSE /\ frames' = Append(frames,
                                   Frame(ChildId(call.dir, Top.list[Top.j]), Top.d + 1))
               /\ UNCHANGED <<call, ret>>

WalkStep == WalkEnter \/ WalkMap

WalkNext ==
  \/ WalkBegin
  \/ WalkEnter
  \/ WalkMap

\* A synchronous call runs on: no step of it waits for anything.
WalkSpec == Init /\ [][WalkNext]_vars /\ WF_vars(WalkStep)

\* The call-by-call execution returns what the recursive definition returns.
StepwiseAgrees ==
  Returned =>
    ret = IF call.dir = "down"
          THEN walkDown(call.id, ServiceMapOf(services), call.maxDepth, None, None).nodes
          ELSE walkUp(call.id, buildReverseIndex(services), call.maxDepth, None, None).nodes

----------------------------------------------------------------------------
(* commands/lint.ts: findCircularDeps *)

\* A LintResult { type, severity, entity, entityKind, message }
CircularFinding(service, targetName) ==
  [type |-> "circular_dependency",
   severity |-> "error",
   entity |-> service.name,
   entityKind |-> "service",
   message |-> "Circular dependency detected: " \o service.name \o " ↔ " \o targetName]

\* DedupKey of the id met again alone
DedupKeyOfTarget(a, b) == b

\* DedupKey without the sort
DedupKeyUnsorted(a, b) == a \o ":" \o b

\* [service.id, id].sort().join(":")
DedupKey(a, b) ==
  IF StrOrd(a) <= StrOrd(b) THEN a \o ":" \o b ELSE b \o ":" \o a

\* s?.dependsOn ?? [] for s = serviceMap.get(id)
DependsOnOf(serviceMap, id) ==
  LET s == MapGet(serviceMap, id)
  IN IF s = None THEN <<>> ELSE OrElse(s[1].dependsOn, <<>>)

\* Leave without the delete
LeaveKeeps(ancestors, id) == ancestors

\* ancestors.delete(id)
Leave(ancestors, id) == ancestors \ {id}

\* The state the closure walk works on: the ancestors of the current origin,
\* and reported and results of the whole call.  pairs is history, not program
\* state: for each finding, <<origin id, id met again>>.
RECURSIVE CircWalk(_, _, _, _)
RECURSIVE CircWalkEach(_, _, _, _, _)

\* CircFound that reports without looking into `reported`
CircFoundUnchecked(service, serviceMap, id, st) ==
  LET target == MapGet(serviceMap, id)
  IN [st EXCEPT
        !.reported = @ \cup {DedupKey(service.id, id)},
        !.results = Append(@, CircularFinding(service,
                             IF target = None THEN id ELSE target[1].name)),
        !.pairs = Append(@, <<service.id, id>>)]

\* The branch of walk taken when ancestors.has(id) (lines 728-741)
CircFound(service, serviceMap, id, st) ==
  LET key == DedupKey(service.id, id)
      target == MapGet(serviceMap, id)
  IN IF key \in st.reported
     THEN st
     ELSE [st EXCEPT
             !.reported = @ \cup {key},
             !.results = Append(@, CircularFinding(service,
                                  IF target = None THEN id ELSE target[1].name)),
             !.pairs = Append(@, <<service.id, id>>)]

\* walk that tests its argument and does not descend
CircWalkShallow(service, serviceMap, id, st) ==
  IF id \in st.ancestors
  THEN CircFound(service, serviceMap, id, st)
  ELSE st

\* function walk(id), a closure over service, ancestors, reported, results
CircWalk(service, serviceMap, id, st) ==
  IF id \in st.ancestors
  THEN CircFound(service, serviceMap, id, st)
  ELSE LET entered == [st EXCEPT !.ancestors = @ \cup {id}]
           after == CircWalkEach(service, serviceMap, DependsOnOf(serviceMap, id), 1,
                                 entered)
       IN [after EXCEPT !.ancestors = Leave(@, id)]

\* for (const dep of ...) walk(dep.service), from the j-th dependency on
CircWalkEach(service, serviceMap, deps, j, st) ==
  IF j > Len(deps) THEN st
  ELSE CircWalkEach(service, serviceMap, deps, j + 1,
                    CircWalk(service, serviceMap, deps[j].service, st))

\* One pass of for (const service of services): a new ancestors set holding
\* service.id, then walk from each direct dependency (lines 724, 752-756)
CircFromOrigin(service, serviceMap, st) ==
  CircWalkEach(service, serviceMap, DependsOnOf(serviceMap, service.id), 1,
               [st EXCEPT !.ancestors = {service.id}])

RECURSIVE CircOverServices(_, _, _, _)
CircOverServices(svcs, serviceMap, i, st) ==
  IF i > Len(svcs) THEN st
  ELSE CircOverServices(svcs, serviceMap, i + 1,
                        CircFromOrigin(svcs[i], serviceMap, st))

\* findCircularDeps(services), with the history it leaves
CircularDepsRun(svcs) ==
  CircOverServices(svcs, ServiceMapOf(svcs), 1,
                   [ancestors |-> {}, reported |-> {}, results |-> <<>>,
                    pairs |-> <<>>])

findCircularDeps(svcs) == CircularDepsRun(svcs).results

----------------------------------------------------------------------------
(* LintSpec: the linter's checks applied to a catalog *)

LintInit ==
  /\ IsCatalog(services, LintServices, LintDeps, LintEdges)
  /\ systems = <<>>
  /\ owners = <<>>
  /\ call = NoCall
  /\ ret = <<>>
  /\ Idle

FindCircularDeps ==
  /\ Fresh
  /\ call' = [op |-> "findCircularDeps"]
  /\ ret' = findCircularDeps(services)
  /\ pairs' = CircularDepsRun(services).pairs
  /\ UNCHANGED <<services, systems, owners, discoverable, stats, cache, now, run, frames, visited>>

LintNext ==
  \/ FindCircularDeps

LintSpec == LintInit /\ [][LintNext]_vars

----------------------------------------------------------------------------
(* commands/lint.ts: the other checks and runLintChecks *)

\* String.prototype.toLowerCase on the strings of the model: the names below
\* with an upper-case letter, every other string having none.
Lowered ==
  ("Payments" :> "payments") @@ ("Platform" :> "platform")
    @@ ("Api" :> "api") @@ ("API" :> "api")

toLowerCase(str) == IF str \in DOMAIN Lowered THEN Lowered[str] ELSE str

\* The names records of each kind are given
ServiceNames == {"payments", "Payments", "svc-c"}
SystemNames == {"payments", "Payments"}
OwnerNames == {"platform", "Platform"}

SystemId(i) == "y" \o ToString(i)
OwnerId(i) == "o" \o ToString(i)

\* What a system or owner field holds: nothing, or the id the first record of
\* the kind has or had (a record removed leaves the references to it behind).
SystemRefs == {None, Some(SystemId(1))}
OwnerRefs == {None, Some(OwnerId(1))}

\* Service { id, name, system?, owner?, dependsOn? }
ServiceRecord(i, name, system, owner, shape) ==
  [id |-> ServiceId(i), name |-> name, system |-> system, owner |-> owner,
   dependsOn |-> ServiceOf(i, shape).dependsOn]

\* System { id, name, owner? }
System(i, name, owner) == [id |-> SystemId(i), name |-> name, owner |-> owner]

\* Owner { id, name }
Owner(i, name) == [id |-> OwnerId(i), name |-> name]

\* The three collections of a catalog of at most `most` records
IsFullCatalog(svcs, syss, owns, most) ==
  \E k \in 0..CheckServices, m \in 0..CheckSystems, n \in 0..CheckOwners :
    /\ k + m + n <= most
    /\ \E shapes \in ShapesFrom(1, k, CatalogIds(k) \cup {Ghost}, CheckDeps, CheckEdges),
          names \in [1..k -> ServiceNames],
          sys \in [1..k -> SystemRefs],
          own \in [1..k -> OwnerRefs] :
         svcs = [i \in 1..k |-> ServiceRecord(i, names[i], sys[i], own[i], shapes[i])]
    /\ \E names \in [1..m -> SystemNames], own \in [1..m -> OwnerRefs] :
         syss = [i \in 1..m |-> System(i, names[i], own[i])]
    /\ \E names \in [1..n -> OwnerNames] :
         owns = [i \in 1..n |-> Owner(i, names[i])]

\* if (x): an optional string is truthy when present and not empty
Truthy(o) == o # None /\ o[1] # ""

\* ids.has(ref) for a truthy ref
HasId(ids, ref) == ref[1] \in ids

\* arr.map(f)
MapSeq(f(_), arr) == [i \in DOMAIN arr |-> f(arr[i])]

OrphanedSystemRef(s) ==
  [type |-> "orphaned_system_ref",
   severity |-> "error",
   entity |-> s.name,
   entityKind |-> "service",
   message |-> "References system \"" \o s.system[1] \o "\" which does not exist",
   fix |-> "yp service rm " \o s.name \o "  OR  yp system add --name <name>"]

\* findOrphanedSystemRefs(services, systemIds), from the i-th service on
RECURSIVE OrphanedSystemRefsFrom(_, _, _, _)
OrphanedSystemRefsFrom(svcs, i, systemIds, results) ==
  IF i > Len(svcs) THEN results
  ELSE OrphanedSystemRefsFrom(svcs, i + 1, systemIds,
         IF Truthy(svcs[i].system) /\ ~HasId(systemIds, svcs[i].system)
         THEN Append(results, OrphanedSystemRef(svcs[i]))
         ELSE results)

findOrphanedSystemRefs(svcs, systemIds) ==
  OrphanedSystemRefsFrom(svcs, 1, systemIds, <<>>)

OrphanedOwnerRef(r, kind) ==
  [type |-> "orphaned_owner_ref",
   severity |-> "error",
   entity |-> r.name,
   entityKind |-> kind,
   message |-> "References owner \"" \o r.owner[1] \o "\" which does not exist"]

\* One loop of findOrphanedOwnerRefs over the records of a kind
RECURSIVE OrphanedOwnerRefsFrom(_, _, _, _, _)
OrphanedOwnerRefsFrom(recs, i, kind, ownerIds, results) ==
  IF i > Len(recs) THEN results
  ELSE OrphanedOwnerRefsFrom(recs, i + 1, kind, ownerIds,
         IF Truthy(recs[i].owner) /\ ~HasId(ownerIds, recs[i].owner)
         THEN Append(results, OrphanedOwnerRef(recs[i], kind))
         ELSE results)

\* findOrphanedOwnerRefs without the loop over the systems
findOrphanedOwnerRefsServicesOnly(svcs, syss, ownerIds) ==
  OrphanedOwnerRefsFrom(svcs, 1, "service", ownerIds, <<>>)

findOrphanedOwnerRefs(svcs, syss, ownerIds) ==
  OrphanedOwnerRefsFrom(syss, 1, "system", ownerIds,
    OrphanedOwnerRefsFrom(svcs, 1, "service", ownerIds, <<>>))

MissingOwner(s) ==
  [type |-> "missing_owner",
   severity |-> "warning",
   entity |-> s.name,
   entityKind |-> "service",
   message |-> "Has no owner assigned",
   fix |-> "yp service add --name " \o s.name \o " --owner <owner>"]

findMissingOwners(svcs) ==
  MapSeq(MissingOwner, SelectSeq(svcs, LAMBDA s : ~Truthy(s.owner)))

DanglingDependency(s, dep) ==
  [type |-> "dangling_dependency",
   severity |-> "error",
   entity |-> s.name,
   entityKind |-> "service",
   message |-> "Depends on \"" \o dep.service \o "\" which does not exist"]

\* DanglingDepsOf that reports the first missing dependency of a service only
DanglingDepsOfFirstOnly(s, deps, j, serviceIds, results) ==
  LET missing == { x \in DOMAIN deps : deps[x].service \notin serviceIds }
  IN IF missing = {} THEN results
     ELSE Append(results,
                 DanglingDependency(s, deps[CHOOSE x \in missing : \A y \in missing : x <= y]))

\* The inner loop of findDanglingDeps, from the j-th dependency on
RECURSIVE DanglingDepsOf(_, _, _, _, _)
DanglingDepsOf(s, deps, j, serviceIds, results) ==
  IF j > Len(deps) THEN results
  ELSE DanglingDepsOf(s, deps, j + 1, serviceIds,
         IF deps[j].service \notin serviceIds
         THEN Append(results, DanglingDependency(s, deps[j]))
         ELSE results)

RECURSIVE DanglingDepsFrom(_, _, _, _)
DanglingDepsFrom(svcs, i, serviceIds, results) ==
  IF i > Len(svcs) THEN results
  ELSE DanglingDepsFrom(svcs, i + 1, serviceIds,
         DanglingDepsOf(svcs[i], OrElse(svcs[i].dependsOn, <<>>), 1, serviceIds, results))

findDanglingDeps(svcs, serviceIds) == DanglingDepsFrom(svcs, 1, serviceIds, <<>>)

\* seen.set(lower, (seen.get(lower) ?? 0) + 1): seen is a Map, listed in the
\* order its keys were first set
SeenAdd(seen, lower) ==
  IF \E p \in DOMAIN seen : seen[p].name = lower
  THEN [p \in DOMAIN seen |->
          IF seen[p].name = lower THEN [seen[p] EXCEPT !.count = @ + 1] ELSE seen[p]]
  ELSE Append(seen, [name |-> lower, count |-> 1])

RECURSIVE SeenOver(_, _, _)
SeenOver(items, i, seen) ==
  IF i > Len(items) THEN seen
  ELSE SeenOver(items, i + 1, SeenAdd(seen, toLowerCase(items[i].name)))

DuplicateName(entry, kind) ==
  [type |-> "duplicate_name",
   severity |-> "error",
   entity |-> entry.name,
   entityKind |-> kind,
   message |-> ToString(entry.count) \o " " \o kind \o "s share the name \""
               \o entry.name \o "\""]

\* const check = (items, kind) => {...}: what it appends to results
CheckNames(items, kind) ==
  MapSeq(LAMBDA entry : DuplicateName(entry, kind),
         SelectSeq(SeenOver(items, 1, <<>>), LAMBDA entry : entry.count > 1))

\* findDuplicateNames with one check over the records of all kinds
findDuplicateNamesAcrossKinds(svcs, syss, owns) ==
  CheckNames(MapSeq(LAMBDA r : [name |-> r.name], svcs)
               \o MapSeq(LAMBDA r : [name |-> r.name], syss)
               \o MapSeq(LAMBDA r : [name |-> r.name], owns),
             "service")

findDuplicateNames(svcs, syss, owns) ==
  CheckNames(svcs, "service") \o CheckNames(syss, "system") \o CheckNames(owns, "owner")

EmptySystem(sys) ==
  [type |-> "empty_system",
   severity |-> "warning",
   entity |-> sys.name,
   entityKind |-> "system",
   message |-> "System has no services"]

\* IsEmptySystem comparing the name of the system with the service's field
IsEmptySystemByName(sys, svcs) ==
  ~\E k \in DOMAIN svcs : svcs[k].system = Some(sys.name)

\* !services.some((s) => s.system === sys.id)
IsEmptySystem(sys, svcs) ==
  ~\E k \in DOMAIN svcs : svcs[k].system = Some(sys.id)

findEmptySystems(syss, svcs) ==
  MapSeq(EmptySystem, SelectSeq(syss, LAMBDA sys : IsEmptySystem(sys, svcs)))

\* new Set(records.map((r) => r.id))
IdSet(recs) == {recs[k].id : k \in DOMAIN recs}

\* runLintChecks(services, systems, owners)
runLintChecks(svcs, syss, owns) ==
  LET serviceIds == IdSet(svcs)
      systemIds == IdSet(syss)
      ownerIds == IdSet(owns)
  IN findOrphanedSystemRefs(svcs, systemIds)
       \o findOrphanedOwnerRefs(svcs, syss, ownerIds)
       \o findMissingOwners(svcs)
       \o findDanglingDeps(svcs, serviceIds)
       \o findCircularDeps(svcs)
       \o findDuplicateNames(svcs, syss, owns)
       \o findEmptySystems(syss, svcs)

\* LintOutcome that fails on any finding
LintOutcomeAnyFinding(results) ==
  LET errors == SelectSeq(results, LAMBDA r : r.severity = "error")
      warnings == SelectSeq(results, LAMBDA r : r.severity = "warning")
  IN [json |-> [success |-> Len(results) = 0,
                errors |-> Len(errors),
                warnings |-> Len(warnings),
                results |-> results],
      exitCode |-> IF Len(results) > 0 THEN 1 ELSE 0]

\* The lint command from the results of runLintChecks on: what it prints with
\* --json and the code the process exits with
LintOutcome(results) ==
  LET errors == SelectSeq(results, LAMBDA r : r.severity = "error")
      warnings == SelectSeq(results, LAMBDA r : r.severity = "warning")
  IN [json |-> [success |-> Len(errors) = 0,
                errors |-> Len(errors),
                warnings |-> Len(warnings),
                results |-> results],
      exitCode |-> IF Len(errors) > 0 THEN 1 ELSE 0]

\* lint(): the three collections are read and checked
lint(svcs, syss, owns) == LintOutcome(runLintChecks(svcs, syss, owns))

----------------------------------------------------------------------------
(* ChecksSpec: the checks of the linter applied to the three collections *)

ChecksInit ==
  /\ IsFullCatalog(services, systems, owners, CheckRecords)
  /\ call = NoCall
  /\ ret = <<>>
  /\ Idle

FindOrphanedSystemRefs ==
  /\ Fresh
  /\ call' = [op |-> "findOrphanedSystemRefs"]
  /\ ret' = findOrphanedSystemRefs(services, IdSet(systems))
  /\ UNCHANGED <<services, systems, owners, discoverable, stats, cache, now, run, frames, visited, pairs>>

FindOrphanedOwnerRefs ==
  /\ Fresh
  /\ call' = [op |-> "findOrphanedOwnerRefs"]
  /\ ret' = findOrphanedOwnerRefs(services, systems, IdSet(owners))
  /\ UNCHANGED <<services, systems, owners, discoverable, stats, cache, now, run, frames, visited, pairs>>

FindMissingOwners ==
  /\ Fresh
  /\ call' = [op |-> "findMissingOwners"]
  /\ ret' = findMissingOwners(services)
  /\ UNCHANGED <<services, systems, owners, discoverable, stats, cache, now, run, frames, visited, pairs>>

FindDanglingDeps ==
  /\ Fresh
  /\ call' = [op |-> "findDanglingDeps"]
  /\ ret' = findDanglingDeps(services, IdSet(services))
  /\ UNCHANGED <<services, systems, owners, discoverable, stats, cache, now, run, frames, visited, pairs>>

FindDuplicateNames ==
  /\ Fresh
  /\ call' = [op |-> "findDuplicateNames"]
  /\ ret' = findDuplicateNames(services, systems, owners)
  /\ UNCHANGED <<services, systems, owners, discoverable, stats, cache, now, run, frames, visited, pairs>>

FindEmptySystems ==
  /\ Fresh
  /\ call' = [op |-> "findEmptySystems"]
  /\ ret' = findEmptySystems(systems, services)
  /\ UNCHANGED <<services, systems, owners, discoverable, stats, cache, now, run, frames, visited, pairs>>

RunLintChecks ==
  /\ Fresh
  /\ call' = [op |-> "runLintChecks"]
  /\ ret' = runLintChecks(services, systems, owners)
  /\ UNCHANGED <<services, systems, owners, discoverable, stats, cache, now, run, frames, visited, pairs>>

Lint ==
  /\ Fresh
  /\ call' = [op |-> "lint"]
  /\ ret' = lint(services, systems, owners)
  /\ UNCHANGED <<services, systems, owners, discoverable, stats, cache, now, run, frames, visited, pairs>>

ChecksNext ==
  \/ FindOrphanedSystemRefs
  \/ FindOrphanedOwnerRefs
  \/ FindMissingOwners
  \/ FindDanglingDeps
  \/ FindDuplicateNames
  \/ FindEmptySystems
  \/ RunLintChecks
  \/ Lint

ChecksSpec == ChecksInit /\ [][ChecksNext]_vars

----------------------------------------------------------------------------
(* RunSpec: runLintChecks executed check by check, findCircularDeps call   *)
(* by call.  run.pc names the check about to run; within findCircularDeps  *)
(* it is "origins" between two passes of the loop over the services and    *)
(* "walk" inside one, frames then holding the pass (first frame) and the   *)
(* invocations of walk, each with the dependencies it loops over and the   *)
(* index j of the next; visited is the ancestors set of the pass,          *)
(* run.reported and run.found the reported set and results array of        *)
(* findCircularDeps, run.results the findings of the checks done.          *)

RunInit ==
  /\ IsFullCatalog(services, systems, owners, RunRecords)
  /\ call = NoCall
  /\ ret = <<>>
  /\ Idle

RunRunning == call.op = "run" /\ call.state = "running"
RunReturned == call.op = "run" /\ call.state = "returned"
RunThrew == call.op = "run" /\ call.state = "threw"

\* The checks that are loops over the collections, in the order runLintChecks
\* spreads them, and the findings of each
ChecksBeforeCircular ==
  <<"findOrphanedSystemRefs", "findOrphanedOwnerRefs", "findMissingOwners", "findDanglingDeps">>
ChecksAfterCircular == <<"findDuplicateNames", "findEmptySystems">>

CheckOrder ==
  ChecksBeforeCircular \o <<"findCircularDeps">> \o ChecksAfterCircular \o <<"return">>

NextCheck(pc) == CheckOrder[(CHOOSE k \in DOMAIN CheckOrder : CheckOrder[k] = pc) + 1]

CheckResult(pc) ==
  CASE pc = "findOrphanedSystemRefs" -> findOrphanedSystemRefs(services, IdSet(systems))
    [] pc = "findOrphanedOwnerRefs" -> findOrphanedOwnerRefs(services, systems, IdSet(owners))
    [] pc = "findMissingOwners" -> findMissingOwners(services)
    [] pc = "findDanglingDeps" -> findDanglingDeps(services, IdSet(services))
    [] pc = "findDuplicateNames" -> findDuplicateNames(services, systems, owners)
    [] pc = "findEmptySystems" -> findEmptySystems(systems, services)

\* runLintChecks(services, systems, owners) is called
RunBegin ==
  /\ Fresh
  /\ call' = [op |-> "run", state |-> "running"]
  /\ run' = [pc |-> CheckOrder[1], results |-> <<>>, reported |-> {}, found |-> <<>>,
             origin |-> 0]
  /\ UNCHANGED <<services, systems, owners, discoverable, stats, cache, now, ret, frames, visited, pairs>>

\* One of the checks that loop over the collections runs
RunCheck ==
  /\ RunRunning
  /\ \E k \in DOMAIN (ChecksBeforeCircular \o ChecksAfterCircular) :
       run.pc = (ChecksBeforeCircular \o ChecksAfterCircular)[k]
  /\ run' = [run EXCEPT !.results = @ \o CheckResult(run.pc), !.pc = NextCheck(run.pc)]
  /\ UNCHANGED <<services, systems, owners, discoverable, stats, cache, now, call, ret, frames, visited, pairs>>

\* findCircularDeps(services) is called: results = [], reported = new Set()
CircBegin ==
  /\ RunRunning
  /\ run.pc = "findCircularDeps"
  /\ run' = [run EXCEPT !.pc = "origins", !.reported = {}, !.found = <<>>, !.origin = 1]
  /\ UNCHANGED <<services, systems, owners, discoverable, stats, cache, now, call, ret, frames, visited, pairs>>

\* for (const service of services): the next pass begins with a new ancestors
\* set holding service.id, or the loop is over and findCircularDeps returns
CircOrigin ==
  /\ RunRunning
  /\ run.pc = "origins"
  /\ UNCHANGED <<services, systems, owners, discoverable, stats, cache, now, call, ret, pairs>>
  /\ IF run.origin > Len(services)
     THEN /\ run' = [run EXCEPT !.results = @ \o run.found, !.pc = NextCheck("findCircularDeps")]
          /\ UNCHANGED <<frames, visited>>
     ELSE LET service == services[run.origin]
          IN /\ visited' = {service.id}
             /\ frames' = <<[id |-> service.id,
                             deps |-> DependsOnOf(ServiceMapOf(services), service.id),
                             j |-> 1]>>
             /\ run' = [run EXCEPT !.pc = "walk"]

\* OnPath that never holds
OnPathNever(id, ancestors) == FALSE

\* ancestors.has(id)
OnPath(id, ancestors) == id \in ancestors

\* The loop of the running invocation (of the pass, for the first frame):
\* it calls walk for its next dependency, which reports and returns when
\* the id is on the path and otherwise adds it and loops over its
\* dependencies (the engine throws RangeError when its stack is full); the
\* loop done, walk deletes its id and returns, or the pass ends.
CircStep ==
  /\ RunRunning
  /\ run.pc = "walk"
  /\ UNCHANGED <<services, systems, owners, discoverable, stats, cache, now, ret>>
  /\ LET f == frames[Len(frames)]
         advanced == [frames EXCEPT ![Len(frames)] = [@ EXCEPT !.j = @ + 1]]
     IN IF f.j > Len(f.deps)
        THEN IF Len(frames) = 1
             THEN /\ frames' = <<>>
                  /\ run' = [run EXCEPT !.pc = "origins", !.origin = @ + 1]
                  /\ UNCHANGED <<visited, call, pairs>>
             ELSE /\ visited' = Leave(visited, f.id)
                  /\ frames' = SubSeq(frames, 1, Len(frames) - 1)
                  /\ UNCHANGED <<run, call, pairs>>
        ELSE IF Len(frames) >= StackLimit
             THEN /\ call' = [call EXCEPT !.state = "threw"]
                  /\ UNCHANGED <<run, frames, visited, pairs>>
             ELSE LET id == f.deps[f.j].service
                  IN IF OnPath(id, visited)
                     THEN LET st == CircFound(services[run.origin], ServiceMapOf(services), id,
                                              [ancestors |-> visited, reported |-> run.reported,
                                               results |-> run.found, pairs |-> pairs])
                          IN /\ run' = [run EXCEPT !.reported = st.reported,
                                                   !.found = st.results]
                             /\ pairs' = st.pairs
                             /\ frames' = advanced
                             /\ UNCHANGED <<visited, call>>
                     ELSE /\ visited' = visited \cup {id}
                          /\ frames' = Append(advanced,
                                              [id |-> id,
                                               deps |-> DependsOnOf(ServiceMapOf(services), id),
                                               j |-> 1])
                          /\ UNCHANGED <<run, call, pairs>>

\* runLintChecks returns the spread array
RunReturn ==
  /\ RunRunning
  /\ run.pc = "return"
  /\ ret' = run.results
  /\ call' = [call EXCEPT !.state = "returned"]
  /\ run' = [run EXCEPT !.pc = "done"]
  /\ UNCHANGED <<services, systems, owners, discoverable, stats, cache, now, frames, visited, pairs>>

RunStep == RunCheck \/ CircBegin \/ CircOrigin \/ CircStep \/ RunReturn

RunNext ==
  \/ RunBegin
  \/ RunCheck
  \/ CircBegin
  \/ CircOrigin
  \/ CircStep
  \/ RunReturn

\* A synchronous call runs on: no step of it waits for anything.
RunSpec == RunInit /\ [][RunNext]_vars /\ WF_vars(RunStep)

\* The check-by-check execution returns what runLintChecks returns.
RunStepwiseAgrees ==
  RunReturned => ret = runLintChecks(services, systems, owners)

----------------------------------------------------------------------------
(* store.ts: resolveId *)

\* readOne(root, collection, id): the record of the file <id>.json, or null
readOne(recs, id) ==
  IF \E k \in DOMAIN recs : recs[k].id = id
  THEN Some(recs[CHOOSE k \in DOMAIN recs : recs[k].id = id])
  ELSE None

\* findByName(root, collection, name): the first record readAll lists whose
\* name is the given one up to case, or null
findByName(recs, name) ==
  LET hits == { k \in DOMAIN recs : toLowerCase(recs[k].name) = toLowerCase(name) }
  IN IF hits = {} THEN None
     ELSE Some(recs[CHOOSE k \in hits : \A m \in hits : k <= m])

\* resolveId that searches by name before it looks for the id
resolveIdNameFirst(recs, idOrName) ==
  LET byName == findByName(recs, idOrName)
  IN IF byName # None THEN byName[1].id ELSE idOrName

\* resolveId(root, collection, idOrName)
resolveId(recs, idOrName) ==
  IF readOne(recs, idOrName) # None THEN idOrName
  ELSE LET byName == findByName(recs, idOrName)
       IN IF byName # None THEN byName[1].id ELSE idOrName

----------------------------------------------------------------------------
(* The services collection as the commands write it *)

\* The names, descriptions and lifecycles given to services; "s2" is a name
\* that is also the id of a service.
StoreNames == {"api", "Api", "s2"}
Descriptions == {None, Some("Handles checkout flow")}
Lifecycles == {None, Some("production")}

\* The record `service add` writes (created = updated = the time of writing)
AddedService(i, name, description, lifecycle) ==
  [id |-> ServiceId(i), name |-> name, description |-> description,
   system |-> None, owner |-> None, lifecycle |-> lifecycle, repo |-> None,
   tags |-> None, apis |-> Some(<<>>), dependsOn |-> Some(<<>>),
   created |-> 0, updated |-> 0]

\* svcs is a services collection of at most n records
IsStore(svcs, given, n) ==
  \E k \in 0..n :
    \E names \in [1..k -> given], descs \in [1..k -> Descriptions],
       lifes \in [1..k -> Lifecycles] :
      svcs = [i \in 1..k |-> AddedService(i, names[i], descs[i], lifes[i])]

----------------------------------------------------------------------------
(* ResolveSpec: resolveId applied to the services collection *)

ResolveInit ==
  /\ IsStore(services, StoreNames, ResolveServices)
  /\ systems = <<>>
  /\ owners = <<>>
  /\ call = NoCall
  /\ ret = <<>>
  /\ Idle

\* What a caller may pass: an id, a name in any case, a string that is neither
ResolveArgs == CatalogIds(ResolveServices) \cup StoreNames \cup {"API", Ghost}

ResolveId ==
  /\ Fresh
  /\ \E idOrName \in ResolveArgs :
       /\ call' = [op |-> "resolveId", idOrName |-> idOrName]
       /\ ret' = resolveId(services, idOrName)
  /\ UNCHANGED <<services, systems, owners, discoverable, stats, cache, now, run, frames, visited, pairs>>

ResolveNext ==
  \/ ResolveId

ResolveSpec == ResolveInit /\ [][ResolveNext]_vars

----------------------------------------------------------------------------
(* discover.ts: diffServices; commands/discover.ts: applyService, discover *)

\* DiscoveredService { name, description?, system?, owner?, lifecycle?,
\* repo?, tags?, apis?, dependsOn?, source }
DiscoveredService(name, description, lifecycle, dependsOn, source) ==
  [name |-> name, description |-> description, system |-> None,
   owner |-> None, lifecycle |-> lifecycle, repo |-> None, tags |-> None,
   apis |-> None, dependsOn |-> dependsOn, source |-> source]

\* The names of discovered services
DiscoverNames == {"api", "Api", "web"}

\* A service inferred from a git repository: its directory's name and nothing
\* else (no package.json description)
Inferred(name) == DiscoveredService(name, None, None, None, "inferred")

\* A service parsed from a catalog-info.yaml that declares a description, a
\* lifecycle and a dependency, by name, on the service api
CatalogFile(name) ==
  DiscoveredService(name, Some("Handles checkout flow"), Some("production"),
    Some(<<[service |-> "api", api |-> None, description |-> None]>>),
    "catalog-file")

\* The lists of n discovered services
DiscoveredLists(n) ==
  { [i \in 1..n |-> IF parsed[i] THEN CatalogFile(names[i]) ELSE Inferred(names[i])] :
      names \in [1..n -> DiscoverNames], parsed \in [1..n -> BOOLEAN] }

\* Inferred services are named after the subdirectories of one directory,
\* which differ, or after the repositories of one organisation, which differ
\* up to case; a catalog file declares any name.
InferredApart(list, foldCase) ==
  \A i, j \in DOMAIN list :
    ( /\ list[i].source = "inferred"
      /\ list[j].source = "inferred"
      /\ IF foldCase THEN toLowerCase(list[i].name) = toLowerCase(list[j].name)
         ELSE list[i].name = list[j].name ) => i = j

\* new Map(existing.map(s => [s.name.toLowerCase(), s])).get(key): the last
\* record of that key
ExistingByName(existing, key) ==
  LET hits == { k \in DOMAIN existing : toLowerCase(existing[k].name) = key }
  IN IF hits = {} THEN None
     ELSE Some(existing[CHOOSE k \in hits : \A m \in hits : m <= k])

\* changed: description, lifecycle or repo differ
Changed(d, ex) ==
  \/ d.description # ex.description
  \/ d.lifecycle # ex.lifecycle
  \/ d.repo # ex.repo

\* The loop of diffServices from the i-th discovered service on
RECURSIVE DiffFrom(_, _, _, _)
DiffFrom(discovered, i, existing, acc) ==
  IF i > Len(discovered) THEN acc
  ELSE LET d == discovered[i]
           key == toLowerCase(d.name)
           ex == ExistingByName(existing, key)
       IN IF ex # None
          THEN DiffFrom(discovered, i + 1, existing,
                 [acc EXCEPT
                    !.matchedNames = @ \cup {key},
                    !.updated = IF Changed(d, ex[1])
                                THEN Append(@, [existing |-> ex[1], discovered |-> d])
                                ELSE @])
          ELSE DiffFrom(discovered, i + 1, existing,
                 [acc EXCEPT !.added = Append(@, d)])

\* diffServices(discovered, existing)
diffServices(discovered, existing) ==
  LET acc == DiffFrom(discovered, 1, existing,
               [added |-> <<>>, updated |-> <<>>, matchedNames |-> {}])
  IN [added |-> acc.added,
      updated |-> acc.updated,
      unchanged |->
        SelectSeq(existing, LAMBDA s :
          \/ toLowerCase(s.name) \notin acc.matchedNames
          \/ ~ \E k \in DOMAIN acc.updated : acc.updated[k].existing.id = s.id)]

\* writeRecord: the file <id>.json is written; readAll lists a new file
\* before or after the others
writeRecord(recs, record, place) ==
  IF \E k \in DOMAIN recs : recs[k].id = record.id
  THEN [k \in DOMAIN recs |-> IF recs[k].id = record.id THEN record ELSE recs[k]]
  ELSE IF place = "first" THEN <<record>> \o recs ELSE Append(recs, record)

\* newId(): an id no record has
newId(recs) == ServiceId(Len(recs) + 1)

\* existingService?.field, for an optional field
FieldOf(existingService, field) ==
  IF existingService = None THEN None ELSE existingService[1][field]

\* a ?? b, both optional
Coalesce(a, b) == IF a # None THEN a ELSE b

\* applyService(root, discovered, existingService): the service it writes
applyService(svcs, syss, owns, discovered, existingService, stamp) ==
  LET ownerId == IF Truthy(discovered.owner)
                 THEN Some(resolveId(owns, discovered.owner[1]))
                 ELSE FieldOf(existingService, "owner")
      systemId == IF Truthy(discovered.system)
                  THEN Some(resolveId(syss, discovered.system[1]))
                  ELSE FieldOf(existingService, "system")
      deps == MapSeq(LAMBDA d : [d EXCEPT !.service = resolveId(svcs, d.service)],
                     OrElse(discovered.dependsOn, <<>>))
  IN [id |-> IF existingService = None THEN newId(svcs) ELSE existingService[1].id,
      name |-> discovered.name,
      description |-> Coalesce(discovered.description,
                               FieldOf(existingService, "description")),
      system |-> systemId,
      owner |-> ownerId,
      lifecycle |-> Coalesce(discovered.lifecycle,
                             FieldOf(existingService, "lifecycle")),
      repo |-> Coalesce(discovered.repo, FieldOf(existingService, "repo")),
      tags |-> Coalesce(discovered.tags, FieldOf(existingService, "tags")),
      apis |-> Some(OrElse(Coalesce(discovered.apis,
                                    FieldOf(existingService, "apis")), <<>>)),
      dependsOn |-> IF Len(deps) > 0 THEN Some(deps)
                    ELSE Some(OrElse(FieldOf(existingService, "dependsOn"), <<>>)),
      created |-> IF existingService = None THEN stamp
                  ELSE existingService[1].created,
      updated |-> stamp]

\* The two loops of discover that apply the diff, over the store: `entries`
\* are the added services (existing absent) or the updated pairs.
RECURSIVE ApplyFrom(_, _, _, _, _, _, _)
ApplyFrom(entries, i, st, syss, owns, stamp, place) ==
  IF i > Len(entries) THEN st
  ELSE LET svc == applyService(st.services, syss, owns, entries[i].discovered,
                               entries[i].existing, stamp)
       IN ApplyFrom(entries, i + 1,
                    [services |-> writeRecord(st.services, svc, place),
                     applied |-> Append(st.applied, svc)],
                    syss, owns, stamp, place)

\* What discover lists: the organisation's services, then the directory's
DiscoveredBy(found, options) ==
  (IF options.githubOrg = "lists" THEN found.github ELSE <<>>)
    \o (IF options.dir THEN found.dir ELSE <<>>)

\* addedServices.map((s) => ({ id: s.id, name: s.name }))
IdsAndNames(applied) == [i \in DOMAIN applied |-> [id |-> applied[i].id, name |-> applied[i].name]]

\* discover(_args, options): the services collection it leaves, what it
\* prints with --json and its exit code
discover(svcs, syss, owns, found, options, stamp, place) ==
  IF options.githubOrg = "absent" /\ ~ options.dir
  THEN [services |-> svcs,
        json |-> [success |-> FALSE, error |-> "no_source"],
        exitCode |-> 1]
  ELSE IF options.githubOrg = "fails"
  THEN [services |-> svcs,
        json |-> [success |-> FALSE, error |-> "github_error"],
        exitCode |-> 1]
  ELSE
    LET discovered == DiscoveredBy(found, options)
        diff == diffServices(discovered, svcs)
        added == ApplyFrom([i \in DOMAIN diff.added |->
                              [discovered |-> diff.added[i], existing |-> None]], 1,
                           [services |-> svcs, applied |-> <<>>],
                           syss, owns, stamp, place)
        updated == ApplyFrom([i \in DOMAIN diff.updated |->
                                [discovered |-> diff.updated[i].discovered,
                                 existing |-> Some(diff.updated[i].existing)]], 1,
                             [services |-> added.services, applied |-> <<>>],
                             syss, owns, stamp, place)
    IN IF Len(discovered) = 0
       THEN [services |-> svcs,
             json |-> [success |-> TRUE, added |-> 0, updated |-> 0,
                       discovered |-> 0],
             exitCode |-> 0]
       ELSE IF options.dryRun
       THEN [services |-> svcs,
             json |-> [success |-> TRUE, dryRun |-> TRUE,
                       discovered |-> Len(discovered),
                       added |-> Len(diff.added),
                       updated |-> Len(diff.updated),
                       services |-> [added |-> [i \in DOMAIN diff.added |-> diff.added[i].name],
                                     updated |-> [i \in DOMAIN diff.updated |->
                                                    diff.updated[i].discovered.name]]],
             exitCode |-> 0]
       ELSE [services |-> updated.services,
             json |-> [success |-> TRUE,
                       discovered |-> Len(discovered),
                       added |-> Len(added.applied),
                       updated |-> Len(updated.applied),
                       services |-> [added |-> IdsAndNames(added.applied),
                                     updated |-> IdsAndNames(updated.applied)]],
             exitCode |-> 0]

----------------------------------------------------------------------------
(* DiscoverSpec: discover run again and again over the same sources *)

\* --github-org: not given, given and the GitHub API fails, given and lists
GithubOrgs == {"absent", "fails", "lists"}
DiscoverOptions == [githubOrg : GithubOrgs, dir : BOOLEAN, dryRun : BOOLEAN]

DiscoverInit ==
  /\ IsStore(services, DiscoverNames, DiscoverServices)
  /\ systems = <<>>
  /\ owners = <<>>
  /\ \E g \in 0..DiscoverFound : \E d \in 0..(DiscoverFound - g) :
       \E github \in DiscoveredLists(g), dir \in DiscoveredLists(d) :
         /\ InferredApart(github, TRUE)
         /\ InferredApart(dir, FALSE)
         /\ discoverable = [github |-> github, dir |-> dir]
  /\ stats = <<>>
  /\ cache = None
  /\ now = 0
  /\ call = NoCall
  /\ ret = <<>>
  /\ run = NoRun
  /\ frames = <<>>
  /\ visited = {}
  /\ pairs = <<>>

\* One run of `yp discover`; the run before it is remembered in the call.
Discover ==
  /\ now < MaxRuns
  /\ \E options \in DiscoverOptions, place \in {"first", "last"} :
       LET out == discover(services, systems, owners, discoverable, options,
                           now + 1, place)
       IN /\ call' = [op |-> "discover", options |-> options,
                      before |-> services,
                      previous |-> IF call = NoCall THEN None
                                   ELSE Some([options |-> call.options,
                                              exitCode |-> ret.exitCode])]
          /\ ret' = [json |-> out.json, exitCode |-> out.exitCode]
          /\ services' = out.services
  /\ now' = now + 1
  /\ UNCHANGED <<systems, owners, discoverable, stats, cache, run, frames, visited, pairs>>

DiscoverNext ==
  \/ Discover

DiscoverSpec == DiscoverInit /\ [][DiscoverNext]_vars

----------------------------------------------------------------------------
(* commands/owner.ts: owner add, owner rm; store.ts: deleteRecord *)

\* deleteRecord that reports the deletion and keeps the file
deleteRecordKeeping(recs, id) ==
  [records |-> recs, deleted |-> \E k \in DOMAIN recs : recs[k].id = id]

\* deleteRecord(root, collection, id): the collection it leaves and what it
\* returns
deleteRecord(recs, id) ==
  IF ~ \E k \in DOMAIN recs : recs[k].id = id
  THEN [records |-> recs, deleted |-> FALSE]
  ELSE [records |-> SelectSeq(recs, LAMBDA r : r.id # id), deleted |-> TRUE]

\* owner rm <id-or-name>: the owners it leaves, what it prints with --json and
\* its exit code
ownerRm(owns, idOrName) ==
  LET id == resolveId(owns, idOrName)
      out == deleteRecord(owns, id)
  IN IF ~ out.deleted
     THEN [owners |-> out.records,
           json |-> [success |-> FALSE, error |-> "not_found"],
           exitCode |-> 1]
     ELSE [owners |-> out.records,
           json |-> [success |-> TRUE, deleted |-> id],
           exitCode |-> 0]

\* The owner ids of the catalogs below, and the owner fields their records hold
OwnedIds == {OwnerId(i) : i \in 1..OwnedOwners}
OwnedRefs == {None} \cup {Some(id) : id \in OwnedIds}

\* The ids removed so far, as the calls remember them
Removed == IF call = NoCall THEN {} ELSE call.removed

\* The owner fields of the services and systems
OwnerFields ==
  {services[k].owner[1] : k \in {j \in DOMAIN services : services[j].owner # None}}
    \cup {systems[k].owner[1] : k \in {j \in DOMAIN systems : systems[j].owner # None}}

\* newId() for an owner: an id no record has, had or names
NewOwnerId ==
  LET used == IdSet(owners) \cup Removed \cup OwnerFields
  IN OwnerId(CHOOSE i \in 1..9 :
       /\ OwnerId(i) \notin used
       /\ \A j \in 1..(i - 1) : OwnerId(j) \in used)

----------------------------------------------------------------------------
(* OwnerSpec: owners added and removed, and the catalog linted *)

OwnerInit ==
  /\ \E k \in 0..OwnedServices :
       \E own \in [1..k -> OwnedRefs] :
         services = [i \in 1..k |->
                       ServiceRecord(i, ServiceName(i), None, own[i], Some(<<>>))]
  /\ \E m \in 0..OwnedSystems :
       \E own \in [1..m -> OwnedRefs] :
         systems = [i \in 1..m |-> System(i, "payments", own[i])]
  /\ \E n \in 0..OwnedOwners :
       \E names \in [1..n -> OwnerNames] :
         owners = [i \in 1..n |-> Owner(i, names[i])]
  /\ call = NoCall
  /\ ret = <<>>
  /\ Idle

OwnerRm ==
  /\ now < OwnerSteps
  /\ \E idOrName \in OwnedIds \cup OwnerNames \cup {Ghost} :
       LET out == ownerRm(owners, idOrName)
       IN /\ call' = [op |-> "owner rm", idOrName |-> idOrName,
                      before |-> [services |-> services, systems |-> systems,
                                  owners |-> owners],
                      removed |-> Removed \cup
                                  (IF out.exitCode = 0 THEN {out.json.deleted} ELSE {})]
          /\ ret' = [json |-> out.json, exitCode |-> out.exitCode]
          /\ owners' = out.owners
  /\ now' = now + 1
  /\ UNCHANGED <<services, systems, discoverable, stats, cache, run, frames, visited, pairs>>

OwnerAdd ==
  /\ now < OwnerSteps
  /\ \E name \in OwnerNames :
       LET owner == [id |-> NewOwnerId, name |-> name]
       IN /\ call' = [op |-> "owner add", name |-> name, removed |-> Removed]
          /\ ret' = [json |-> [success |-> TRUE, owner |-> owner], exitCode |-> 0]
          /\ owners' = writeRecord(owners, owner, "last")
  /\ now' = now + 1
  /\ UNCHANGED <<services, systems, discoverable, stats, cache, run, frames, visited, pairs>>

OwnerLint ==
  /\ now < OwnerSteps
  /\ call' = [op |-> "lint", removed |-> Removed]
  /\ ret' = lint(services, systems, owners)
  /\ now' = now + 1
  /\ UNCHANGED <<services, systems, owners, discoverable, stats, cache, run, frames, visited, pairs>>

OwnerNext ==
  \/ OwnerRm
  \/ OwnerAdd
  \/ OwnerLint

OwnerSpec == OwnerInit /\ [][OwnerNext]_vars

----------------------------------------------------------------------------
(* search-index.ts: computeCatalogHash, getSearchIndex *)

\* The file of a record
PathOf(collection, id) == collection \o "/" \o id \o ".json"

\* The size of the JSON text of a record: it grows with the strings it holds
JsonSize(record) == Len(record.id) + Len(record.name)

\* The parts of the hash for one collection: file, mtimeMs and size of each
\* file, the files in sorted order (ids holds them sorted)
HashParts(collection, ids, st) ==
  LET present == SelectSeq(ids, LAMBDA id : PathOf(collection, id) \in DOMAIN st)
  IN [k \in DOMAIN present |->
        <<PathOf(collection, present[k]),
          st[PathOf(collection, present[k])].mtimeMs,
          st[PathOf(collection, present[k])].size>>]

\* The ids a collection of the catalogs below may hold, sorted
SearchIds(collection) ==
  IF collection = "services" THEN [i \in 1..SearchServices |-> ServiceId(i)]
  ELSE IF collection = "systems" THEN <<SystemId(1)>>
  ELSE <<OwnerId(1)>>

\* computeCatalogHash(root)
computeCatalogHash(st) ==
  HashParts("services", SearchIds("services"), st)
    \o HashParts("systems", SearchIds("systems"), st)
    \o HashParts("owners", SearchIds("owners"), st)

serviceToDoc(s) ==
  [id |-> "service:" \o s.id, kind |-> "service", name |-> s.name,
   description |-> OrElse(s.description, ""), lifecycle |-> OrElse(s.lifecycle, ""),
   ownerType |-> ""]

systemToDoc(s) ==
  [id |-> "system:" \o s.id, kind |-> "system", name |-> s.name,
   description |-> "", lifecycle |-> "", ownerType |-> ""]

ownerToDoc(o) ==
  [id |-> "owner:" \o o.id, kind |-> "owner", name |-> o.name,
   description |-> "", lifecycle |-> "", ownerType |-> o.type]

\* The index MiniSearch builds from the documents of the three collections,
\* as the set of its documents
BuildIndex(svcs, syss, owns) ==
  {serviceToDoc(svcs[k]) : k \in DOMAIN svcs}
    \cup {systemToDoc(syss[k]) : k \in DOMAIN syss}
    \cup {ownerToDoc(owns[k]) : k \in DOMAIN owns}

\* getSearchIndex(root): the index it returns and the cache files it leaves
getSearchIndex(files, st, svcs, syss, owns) ==
  LET currentHash == computeCatalogHash(st)
  IN IF files # None /\ files[1].hash = currentHash
     THEN [index |-> files[1].index, cache |-> files, reused |-> TRUE]
     ELSE [index |-> BuildIndex(svcs, syss, owns),
           cache |-> Some([hash |-> currentHash,
                           index |-> BuildIndex(svcs, syss, owns)]),
           reused |-> FALSE]

----------------------------------------------------------------------------
(* SearchSpec: records written and deleted, and the search index fetched *)

SearchNames == {"checkout", "payments", "zebra-processor"}

\* The records a caller may write
SearchRecords(collection) ==
  IF collection = "services"
  THEN {AddedService(i, name, None, None) : i \in 1..SearchServices, name \in SearchNames}
  ELSE IF collection = "systems"
  THEN {System(1, name, None) : name \in {"payments"}}
  ELSE {[id |-> OwnerId(1), name |-> name, type |-> "team"] : name \in {"platform"}}

Collections == {"services", "systems", "owners"}

CollectionOf(collection) ==
  IF collection = "services" THEN services
  ELSE IF collection = "systems" THEN systems ELSE owners

SearchInit ==
  /\ services = <<>>
  /\ systems = <<>>
  /\ owners = <<>>
  /\ call = NoCall
  /\ ret = <<>>
  /\ Idle

\* The clock of the file system ticks
Tick ==
  /\ now < MaxClock
  /\ now' = now + 1
  /\ UNCHANGED <<services, systems, owners, discoverable, stats, cache, run, call, ret, frames, visited, pairs>>

\* writeRecord(root, collection, record): the file gets the record, the
\* current time as mtime and the size of its text
WriteRecord ==
  \E collection \in Collections :
    \E record \in SearchRecords(collection) :
      LET written == writeRecord(CollectionOf(collection), record, "last")
      IN /\ services' = IF collection = "services" THEN written ELSE services
         /\ systems' = IF collection = "systems" THEN written ELSE systems
         /\ owners' = IF collection = "owners" THEN written ELSE owners
         /\ stats' = (PathOf(collection, record.id) :>
                        [mtimeMs |-> now, size |-> JsonSize(record)]) @@ stats
         /\ call' = [op |-> "writeRecord", collection |-> collection]
         /\ ret' = <<>>
         /\ UNCHANGED <<discoverable, cache, now, run, frames, visited, pairs>>

\* deleteRecord(root, collection, id) of a record there is
DeleteRecord ==
  \E collection \in Collections :
    \E id \in IdSet(CollectionOf(collection)) :
      LET out == deleteRecord(CollectionOf(collection), id)
      IN /\ services' = IF collection = "services" THEN out.records ELSE services
         /\ systems' = IF collection = "systems" THEN out.records ELSE systems
         /\ owners' = IF collection = "owners" THEN out.records ELSE owners
         /\ stats' = [path \in DOMAIN stats \ {PathOf(collection, id)} |-> stats[path]]
         /\ call' = [op |-> "deleteRecord", collection |-> collection]
         /\ ret' = out.deleted
         /\ UNCHANGED <<discoverable, cache, now, run, frames, visited, pairs>>

GetSearchIndex ==
  LET out == getSearchIndex(cache, stats, services, systems, owners)
  IN /\ call' = [op |-> "getSearchIndex", reused |-> out.reused]
     /\ ret' = out.index
     /\ cache' = out.cache
     /\ UNCHANGED <<services, systems, owners, discoverable, stats, now, run, frames, visited, pairs>>

SearchNext ==
  \/ Tick
  \/ WriteRecord
  \/ DeleteRecord
  \/ GetSearchIndex

SearchSpec == SearchInit /\ [][SearchNext]_vars

----------------------------------------------------------------------------
(* The dependency relation of a catalog, stated without the engine *)

DepsOf(s) == OrElse(s.dependsOn, <<>>)

\* <<from id, to id>> for every dependency record
EdgeSet(svcs) ==
  UNION { { <<svcs[i].id, DepsOf(svcs[i])[j].service>> : j \in DOMAIN DepsOf(svcs[i]) }
          : i \in DOMAIN svcs }

TargetIds(svcs) == { e[2] : e \in EdgeSet(svcs) }

Successors(svcs, ids) == { e[2] : e \in { x \in EdgeSet(svcs) : x[1] \in ids } }

RECURSIVE Closure(_, _)
Closure(svcs, ids) ==
  LET more == ids \cup Successors(svcs, ids)
  IN IF more = ids THEN ids ELSE Closure(svcs, more)

\* The ids reachable from id by one or more dependency edges
ReachableFrom(svcs, id) == Closure(svcs, Successors(svcs, {id}))

OnCycle(svcs, id) == id \in ReachableFrom(svcs, id)
HasCycle(svcs) == \E id \in IdsOf(svcs) : OnCycle(svcs, id)

\* The services with at least one dependency record
HasDeps(svcs, id) == \E e \in EdgeSet(svcs) : e[1] = id

\* Every node of the forest lies at a level <= d, the roots of `nodes` being
\* at `level`, and the nodes at level d have no children.
RECURSIVE DepthBounded(_, _, _)
DepthBounded(nodes, level, d) ==
  \A k \in DOMAIN nodes :
    /\ level <= d
    /\ level = d => nodes[k].children = <<>>
    /\ DepthBounded(nodes[k].children, level + 1, d)

\* The forests a call returned
Forests ==
  CASE call.op \in {"walkDown", "walkUp"} -> {ret}
    [] call.op = "resolveDeps" -> {ret.dependents, ret.dependencies}
    [] OTHER -> {}

----------------------------------------------------------------------------
(* Claims *)

\* C1: for every service set (self-dependencies, cycles of any length,
\* dangling targets), every root id and every maxDepth (larger than the number
\* of services, NaN, Infinity, -Infinity included), a call of walkDown or
\* walkUp returns: the call-by-call execution, once begun, reaches the return
\* of its first invocation, and never fills the call stack.
C1_WalksTerminate == Running ~> Returned

\* C1 witness: a walk from a service on a cycle through every service of the
\* catalog, with a maxDepth that never truncates, has returned nodes.
C1_Witness ==
  /\ Returned
  /\ call.maxDepth \in {NaN, PosInfinity}
  /\ Len(services) = MaxServices
  /\ ReachableFrom(services, call.id) = IdsOf(services)
  /\ ret # <<>>

\* C2: with an integer depth limit d >= 1 the forest walkDown / walkUp returns
\* (resolveDeps returns them as dependencies / dependents) has no node below
\* level d, and the nodes at level d have empty children.
C2_DepthBound ==
  (call.op \in {"walkDown", "walkUp", "resolveDeps"}
     /\ call.maxDepth.kind = "int" /\ call.maxDepth.n >= 1)
  => \A f \in Forests : DepthBounded(f, 1, call.maxDepth.n)

\* C2 witness: walkDown with limit 2 returned a node at level 2 with no
\* children for a service that has dependencies and was not met before.
C2_Witness ==
  /\ call.op = "walkDown"
  /\ call.maxDepth = IntNum(2)
  /\ Len(ret) = 1
  /\ Len(ret[1].children) = 1
  /\ LET n == ret[1].children[1]
     IN /\ n.children = <<>>
        /\ n.id \notin {call.id, ret[1].id}
        /\ HasDeps(services, n.id)

\* C3: with maxDepth <= 0 walkDown and walkUp return [] and resolveDeps
\* returns empty dependents and dependencies.
C3_NonPositiveDepthIsEmpty ==
  (call.op \in {"walkDown", "walkUp", "resolveDeps"} /\ NonPositive(call.maxDepth))
  => \A f \in Forests : f = <<>>

\* C3 witness: resolveDeps in both directions with a negative depth, for a
\* service that has dependencies and dependents.
C3_Witness ==
  /\ call.op = "resolveDeps"
  /\ call.direction = "undefined"
  /\ call.maxDepth \in {IntNum(-1), NegInfinity}
  /\ HasDeps(services, call.id)
  /\ call.id \in TargetIds(services)
  /\ ret.dependents = <<>> /\ ret.dependencies = <<>>

\* C4: resolveDeps with direction "up" returns dependencies = [], with "down"
\* dependents = [], and with the direction omitted dependents is the upward
\* walk and dependencies the downward walk.
C4_DirectionFiltering ==
  call.op = "resolveDeps" =>
    /\ call.direction = "up" => ret.dependencies = <<>>
    /\ call.direction = "down" => ret.dependents = <<>>
    /\ call.direction = "undefined" =>
         /\ ret.dependents =
              walkUp(call.id, buildReverseIndex(services), call.maxDepth, None, None).nodes
         /\ ret.dependencies =
              walkDown(call.id, ServiceMapOf(services), call.maxDepth, None, None).nodes

\* C4 witness: direction "up" for a service that has dependencies: they are
\* suppressed while the dependents are listed.
C4_Witness ==
  /\ call.op = "resolveDeps"
  /\ call.direction = "up"
  /\ call.maxDepth = IntNum(MaxDepthArg)
  /\ HasDeps(services, call.id)
  /\ ret.dependents # <<>>
  /\ ret.dependencies = <<>>

UnknownId == call.op = "resolveDeps" /\ call.id \notin IdsOf(services)

\* C5 as stated: resolveDeps with an id of no service returns the id echoed as
\* name and both lists empty.
C5_UnknownIdBothEmpty ==
  UnknownId =>
    /\ ret.service = [id |-> call.id, name |-> call.id]
    /\ ret.dependents = <<>>
    /\ ret.dependencies = <<>>

\* C5 amended: resolveDeps with an id of no service returns the id echoed as
\* name and dependencies = []; dependents = [] provided no service's dependsOn
\* names that id.
C5_UnknownId ==
  UnknownId =>
    /\ ret.service = [id |-> call.id, name |-> call.id]
    /\ ret.dependencies = <<>>
    /\ call.id \notin TargetIds(services) => ret.dependents = <<>>

\* C5 witness: resolveDeps in both directions, a depth that truncates nothing,
\* for an id of no service that no service depends on, in a catalog with
\* dependencies.
C5_Witness ==
  /\ UnknownId
  /\ call.direction = "undefined"
  /\ call.maxDepth = IntNum(MaxDepthArg)
  /\ call.id \notin TargetIds(services)
  /\ EdgeSet(services) # {}
  /\ ret.dependents = <<>>

\* The reverse-index entry of the j-th dependency of the i-th service
EntryOf(svcs, i, j) ==
  [service |-> svcs[i],
   api |-> DepsOf(svcs[i])[j].api,
   description |-> DepsOf(svcs[i])[j].description]

\* The dependency records with target k, as <<i, j>>
RecordsOn(svcs, k) ==
  UNION { { <<i, j>> : j \in { x \in DOMAIN DepsOf(svcs[i]) : DepsOf(svcs[i])[x].service = k } }
          : i \in DOMAIN svcs }

\* C6: buildReverseIndex is the transposed relation: its keys are the ids some
\* service depends on (an id nobody depends on has no key), and the list
\* under a key holds, for each entry value, as many entries as there are
\* dependency records on the key from that service with that api and
\* description: one entry per record, none else.
C6_ReverseIndexTransposes ==
  call.op = "buildReverseIndex" =>
    /\ DOMAIN ret = TargetIds(services)
    /\ \A k \in DOMAIN ret :
         /\ ret[k] # <<>>
         /\ Len(ret[k]) = Cardinality(RecordsOn(services, k))
         /\ \A r \in RecordsOn(services, k) :
              LET e == EntryOf(services, r[1], r[2])
              IN Cardinality({ p \in DOMAIN ret[k] : ret[k][p] = e }) =
                 Cardinality({ q \in RecordsOn(services, k) :
                                 EntryOf(services, q[1], q[2]) = e })

\* C6 witness: an index with two entries under one key, while some service
\* of the catalog has no key.
C6_Witness ==
  /\ call.op = "buildReverseIndex"
  /\ \E k \in DOMAIN ret : Len(ret[k]) = 2 /\ ret[k][1].service # ret[k][2].service
  /\ \E id \in IdsOf(services) : id \notin DOMAIN ret

\* C7: findOrphans returns, in input order, exactly the services with no
\* dependency record of their own whose id no dependency record targets.
C7_OrphansExact ==
  call.op = "findOrphans" =>
    ret = SelectSeq(services,
                    LAMBDA s : DepsOf(s) = <<>> /\ s.id \notin TargetIds(services))

\* C7 witness: an orphan is returned while a service whose only dependency is
\* dangling and a service that depends on itself are not.
C7_Witness ==
  /\ call.op = "findOrphans"
  /\ Len(ret) = 1
  /\ \E i \in DOMAIN services :
       {e \in EdgeSet(services) : e[1] = services[i].id} = {<<services[i].id, Ghost>>}
  /\ \E i \in DOMAIN services :
       <<services[i].id, services[i].id>> \in EdgeSet(services)

IsCircularError(finding) ==
  finding.type = "circular_dependency" /\ finding.severity = "error"

\* C8: when the dependency graph has a cycle (a self-dependency, a direct or
\* an indirect cycle) findCircularDeps returns at least one finding of type
\* circular_dependency and severity error.
C8_CyclesDetected ==
  (call.op = "findCircularDeps" /\ HasCycle(services))
  => \E k \in DOMAIN ret : IsCircularError(ret[k])

\* C8 witness: findings for a catalog holding the indirect cycle
\* s1 -> s2 -> s3 -> s1 and the self-dependency s4 -> s4.
C8_Witness ==
  /\ call.op = "findCircularDeps"
  /\ EdgeSet(services) = {<<"s1", "s2">>, <<"s2", "s3">>, <<"s3", "s1">>, <<"s4", "s4">>}
  /\ Len(ret) >= 2

\* C9: when the dependency graph has no cycle (chains, diamonds, dangling
\* dependencies) findCircularDeps returns the empty list.
C9_NoFalsePositives ==
  (call.op = "findCircularDeps" /\ ~HasCycle(services)) => ret = <<>>

\* C9 witness: no finding for the diamond s1 -> s2, s1 -> s3, s2 -> s4, s3 -> s4.
C9_Witness ==
  /\ call.op = "findCircularDeps"
  /\ EdgeSet(services) = {<<"s1", "s2">>, <<"s1", "s3">>, <<"s2", "s4">>, <<"s3", "s4">>}
  /\ ret = <<>>

\* C10: one findCircularDeps call returns no two findings for the same
\* unordered pair {origin id, id met again}, and at least one
\* circular_dependency finding for the direct cycle s1 -> s2 -> s1.
C10_OnePerPair ==
  call.op = "findCircularDeps" =>
    /\ Len(pairs) = Len(ret)
    /\ \A a, b \in DOMAIN pairs :
         a # b => {pairs[a][1], pairs[a][2]} # {pairs[b][1], pairs[b][2]}
    /\ EdgeSet(services) = {<<"s1", "s2">>, <<"s2", "s1">>}
         => \E k \in DOMAIN ret : ret[k].type = "circular_dependency"

\* C10 witness: two services, each depending on itself and on the other: a
\* finding for each of the three pairs, the pair {s1, s2} met from both
\* origins and reported once.
C10_Witness ==
  /\ call.op = "findCircularDeps"
  /\ EdgeSet(services) = {<<"s1", "s1">>, <<"s1", "s2">>, <<"s2", "s1">>, <<"s2", "s2">>}
  /\ Len(ret) = 3
  /\ \E a \in DOMAIN pairs : {pairs[a][1], pairs[a][2]} = {"s1", "s2"}

\* The dependency records whose target is the id of no service, as <<i, j>>
DanglingRecords(svcs) ==
  UNION { { <<i, j>> : j \in { x \in DOMAIN DepsOf(svcs[i]) :
                                 DepsOf(svcs[i])[x].service \notin IdsOf(svcs) } }
          : i \in DOMAIN svcs }

\* C11: findDanglingDeps returns dangling_dependency errors only, as many
\* as there are dependency records whose target is the id of no service, and
\* as many naming a service as that service (with its namesakes) has such
\* records; a catalog with such a record makes lint fail with errors > 0.
C11_DanglingDeps ==
  /\ call.op = "findDanglingDeps" =>
       /\ \A k \in DOMAIN ret :
            ret[k].type = "dangling_dependency" /\ ret[k].severity = "error"
       /\ Len(ret) = Cardinality(DanglingRecords(services))
       /\ \A i \in DOMAIN services :
            Cardinality({ k \in DOMAIN ret : ret[k].entity = services[i].name
                                             /\ ret[k].entityKind = "service" })
            = Cardinality({ r \in DanglingRecords(services) :
                              services[r[1]].name = services[i].name })
  /\ (call.op = "lint" /\ DanglingRecords(services) # {}) =>
       /\ ret.json.errors > 0
       /\ ret.json.success = FALSE
       /\ ret.exitCode = 1

\* C11 witness: a service depending on a missing id and on an existing
\* service: one finding, naming it.
C11_Witness ==
  /\ call.op = "findDanglingDeps"
  /\ Len(services) = 2
  /\ { e \in EdgeSet(services) : e[1] = "s1" } = {<<"s1", Ghost>>, <<"s1", "s2">>}
  /\ Len(ret) = 1
  /\ ret[1].entity = services[1].name

\* The records of a kind whose name is `lower` when lower-cased
Namesakes(recs, lower) == { k \in DOMAIN recs : toLowerCase(recs[k].name) = lower }

\* The lower-cased names two or more records of a kind share
SharedNames(recs) ==
  { lower \in { toLowerCase(recs[k].name) : k \in DOMAIN recs } :
      Cardinality(Namesakes(recs, lower)) >= 2 }

RecordsOfKind(kind) ==
  CASE kind = "service" -> services
    [] kind = "system" -> systems
    [] kind = "owner" -> owners

\* C12: findDuplicateNames returns, for each kind and each lower-cased name
\* that two or more records of the kind share, exactly one duplicate_name
\* error, whose message states how many share it, and nothing else: a name
\* shared only across kinds gives no finding.
C12_DuplicateNamesPerKind ==
  call.op = "findDuplicateNames" =>
    /\ \A kind \in {"service", "system", "owner"} :
         \A lower \in SharedNames(RecordsOfKind(kind)) :
           LET count == Cardinality(Namesakes(RecordsOfKind(kind), lower))
               found == { k \in DOMAIN ret : ret[k].entityKind = kind
                                             /\ ret[k].entity = lower }
           IN /\ Cardinality(found) = 1
              /\ \A k \in found :
                   /\ ret[k].type = "duplicate_name"
                   /\ ret[k].severity = "error"
                   /\ ret[k].message = ToString(count) \o " " \o kind
                                       \o "s share the name \"" \o lower \o "\""
    /\ Len(ret) = Cardinality(SharedNames(services)) + Cardinality(SharedNames(systems))
                  + Cardinality(SharedNames(owners))

\* C12 witness: two services named payments and Payments and a system named
\* payments: one finding, for the two services.
C12_Witness ==
  /\ call.op = "findDuplicateNames"
  /\ Len(services) = 2 /\ Len(systems) = 1
  /\ services[1].name = "payments" /\ services[2].name = "Payments"
  /\ systems[1].name = "payments"
  /\ Len(ret) = 1
  /\ ret[1].entityKind = "service"
  /\ ret[1].message = "2 services share the name \"payments\""

\* The systems whose id is the system field of no service
EmptySystems == { k \in DOMAIN systems :
                    \A i \in DOMAIN services : services[i].system # Some(systems[k].id) }

\* findEmptySystems returned one empty_system warning per system no service
\* references (as many naming a system as it and its namesakes are), none else.
EmptySystemsExact ==
  call.op = "findEmptySystems" =>
    /\ \A k \in DOMAIN ret :
         ret[k].type = "empty_system" /\ ret[k].severity = "warning"
    /\ Len(ret) = Cardinality(EmptySystems)
    /\ \A m \in DOMAIN systems :
         Cardinality({ k \in DOMAIN ret : ret[k].entity = systems[m].name
                                          /\ ret[k].entityKind = "system" })
         = Cardinality({ e \in EmptySystems : systems[e].name = systems[m].name })

\* The catalog holds one record: a system
OnlyASystem == services = <<>> /\ owners = <<>> /\ Len(systems) = 1

\* C13 as stated: findEmptySystems returns exactly one empty_system warning
\* for every system no service references and none for a referenced one, and
\* lint of a catalog holding only such a system counts zero errors.
C13_EmptySystemZeroErrors ==
  /\ EmptySystemsExact
  /\ (call.op = "lint" /\ OnlyASystem) => ret.json.errors = 0

\* C13 amended: as stated, the catalog holding only such a system counting
\* zero errors when the system's owner field is unset.
C13_EmptySystems ==
  /\ EmptySystemsExact
  /\ (call.op = "lint" /\ OnlyASystem /\ systems[1].owner = None) =>
       /\ ret.json.errors = 0
       /\ ret.json.warnings = 1
       /\ ret.exitCode = 0

\* C13 witness: of two systems the one no service references is reported.
C13_Witness ==
  /\ call.op = "findEmptySystems"
  /\ Len(systems) = 2
  /\ \E i \in DOMAIN services : services[i].system = Some(systems[1].id)
  /\ systems[1].name # systems[2].name
  /\ Len(ret) = 1
  /\ ret[1].entity = systems[2].name

\* The records whose reference field `ref` ("system" or "owner") is set to an
\* id that no record of `targets` has
Orphaned(recs, ref, targets) ==
  { k \in DOMAIN recs : recs[k][ref] # None /\ recs[k][ref][1] \notin IdsOf(targets) }

\* As many findings of the type name an entity of the kind as it and its
\* namesakes have orphaned references
OnePerOrphan(findings, type, kind, recs, orphaned) ==
  \A m \in DOMAIN recs :
    Cardinality({ k \in DOMAIN findings : /\ findings[k].type = type
                                          /\ findings[k].severity = "error"
                                          /\ findings[k].entityKind = kind
                                          /\ findings[k].entity = recs[m].name })
    = Cardinality({ o \in orphaned : recs[o].name = recs[m].name })

\* C14: for each service.system, service.owner and system.owner that is set
\* to the id of no record of the referenced kind there is exactly one error
\* finding (orphaned_system_ref, orphaned_owner_ref) naming the referencing
\* entity with its kind, and none for a reference unset or to an existing id.
C14_OrphanedRefs ==
  /\ call.op = "findOrphanedSystemRefs" =>
       /\ Len(ret) = Cardinality(Orphaned(services, "system", systems))
       /\ OnePerOrphan(ret, "orphaned_system_ref", "service", services,
                       Orphaned(services, "system", systems))
  /\ call.op = "findOrphanedOwnerRefs" =>
       /\ Len(ret) = Cardinality(Orphaned(services, "owner", owners))
                     + Cardinality(Orphaned(systems, "owner", owners))
       /\ OnePerOrphan(ret, "orphaned_owner_ref", "service", services,
                       Orphaned(services, "owner", owners))
       /\ OnePerOrphan(ret, "orphaned_owner_ref", "system", systems,
                       Orphaned(systems, "owner", owners))

\* C14 witness: a service and a system whose owner is missing, and a service
\* with no owner: two findings, one of each kind.
C14_Witness ==
  /\ call.op = "findOrphanedOwnerRefs"
  /\ owners = <<>>
  /\ Len(services) = 2 /\ Len(systems) = 1
  /\ services[1].owner = None
  /\ services[2].owner # None
  /\ systems[1].owner # None
  /\ Len(ret) = 2
  /\ ret[1].entityKind = "service" /\ ret[2].entityKind = "system"

\* C15: lint exits with code 1 and prints success = false exactly when
\* runLintChecks returned a finding of severity error; otherwise (warnings
\* only, or no finding) it exits with code 0 and success = true; the errors
\* and warnings it counts sum to the number of findings.
C15_LintFailsOnErrors ==
  call.op = "lint" =>
    LET results == runLintChecks(services, systems, owners)
        anyError == \E k \in DOMAIN results : results[k].severity = "error"
    IN /\ ret.json.results = results
       /\ anyError => ret.exitCode = 1 /\ ret.json.success = FALSE
       /\ ~anyError => ret.exitCode = 0 /\ ret.json.success = TRUE
       /\ ret.json.errors + ret.json.warnings = Len(results)

\* C15 witness: a catalog with warnings only (a service without owner, a
\* system without services) passes.
C15_Witness ==
  /\ call.op = "lint"
  /\ ret.json.warnings >= 2
  /\ ret.json.errors = 0
  /\ ret.exitCode = 0
  /\ ret.json.success = TRUE

\* C16: for every catalog (dependency cycles, self-dependencies, dangling
\* dependencies, dangling owner and system references and duplicate names
\* together included) a call of runLintChecks returns its list of findings:
\* the check-by-check execution, once begun, reaches its return, and throws
\* nowhere on the way.
C16_RunLintChecksReturns == RunRunning ~> RunReturned

\* C16 witness: runLintChecks has returned findings for a catalog with a
\* dependency cycle, a dangling dependency, dangling owner and system
\* references and a duplicate name.
C16_Witness ==
  /\ RunReturned
  /\ HasCycle(services)
  /\ DanglingRecords(services) # {}
  /\ Orphaned(services, "owner", owners) # {}
  /\ Orphaned(services, "system", systems) # {}
  /\ SharedNames(services) # {}
  /\ \A type \in {"circular_dependency", "dangling_dependency", "orphaned_owner_ref",
                  "orphaned_system_ref", "duplicate_name"} :
       \E k \in DOMAIN ret : ret[k].type = type

\* The nodes of a forest in traversal order (a node, then its subtree, then
\* its next sibling), each with its level (the roots are at `level`), the id
\* of its parent and the ids of its children
RECURSIVE Preorder(_, _, _)
Preorder(nodes, level, parent) ==
  IF nodes = <<>> THEN <<>>
  ELSE <<[id |-> nodes[1].id, level |-> level, parent |-> parent,
          childIds |-> [k \in DOMAIN nodes[1].children |-> nodes[1].children[k].id]]>>
       \o Preorder(nodes[1].children, level + 1, nodes[1].id)
       \o Preorder(Tail(nodes), level, parent)

\* The targets of the dependency records of the service with the id, in order
TargetsOf(svcs, id) ==
  LET s == MapGet(ServiceMapOf(svcs), id)
  IN IF s = None THEN <<>> ELSE [j \in DOMAIN DepsOf(s[1]) |-> DepsOf(s[1])[j].service]

\* C17 as stated: in the tree walkDown returns a service reachable via two
\* different parents is a node once: no two nodes under different parents
\* have the same id.
C17_SharedNodeOnce ==
  call.op = "walkDown" =>
    LET P == Preorder(ret, 1, call.id)
    IN \A a, b \in DOMAIN P :
         (a # b /\ P[a].parent # P[b].parent) => P[a].id # P[b].id

\* C17 amended: a service reachable via two different parents is a node
\* under each parent the walk expands (an expanded node has a child per
\* dependency record of its service), but is expanded at most once, never
\* when it is the root of the walk: at its first occurrence in traversal
\* order that lies above the depth limit; every other occurrence has no
\* children.
C17_SharedNodeExpandedOnce ==
  call.op = "walkDown" =>
    LET P == Preorder(ret, 1, call.id)
        Above(a) == ~GreaterEq(P[a].level, call.maxDepth)
        First(a) == /\ Above(a)
                    /\ P[a].id # call.id
                    /\ \A b \in 1..(a - 1) : P[b].id = P[a].id => ~Above(b)
    IN \A a \in DOMAIN P :
         P[a].childIds = IF First(a) THEN TargetsOf(services, P[a].id) ELSE <<>>

\* C17 witness: the diamond s1 -> s2, s1 -> s3, s2 -> s4, s3 -> s4 walked
\* from s1 without truncation: s4 is a child of s2 and of s3.
C17_Witness ==
  /\ call.op = "walkDown"
  /\ call.id = "s1"
  /\ call.maxDepth = IntNum(MaxDepthArg)
  /\ EdgeSet(services) = {<<"s1", "s2">>, <<"s1", "s3">>, <<"s2", "s4">>, <<"s3", "s4">>}
  /\ Len(ret) = 2
  /\ \A k \in {1, 2} : Len(ret[k].children) = 1 /\ ret[k].children[1].id = "s4"

\* C18: resolveId returns the input when a record has exactly that id, even
\* when another record's name is the input; otherwise the id of a record
\* whose name is the input up to case, when there is one; otherwise the input.
C18_ResolveIdPrecedence ==
  call.op = "resolveId" =>
    LET named == { k \in DOMAIN services :
                     toLowerCase(services[k].name) = toLowerCase(call.idOrName) }
    IN IF call.idOrName \in IdsOf(services) THEN ret = call.idOrName
       ELSE IF named # {} THEN \E k \in named : ret = services[k].id
       ELSE ret = call.idOrName

\* C18 witness: the input is the id of the second service and the name of
\* the first: the input comes back, not the id of the first.
C18_Witness ==
  /\ call.op = "resolveId"
  /\ Len(services) >= 2
  /\ call.idOrName = services[2].id
  /\ services[1].name = call.idOrName
  /\ ret = services[2].id

\* A run of discover that listed its sources and wrote what it found
AppliedRun(options, exitCode) == exitCode = 0 /\ ~ options.dryRun

\* The run recorded in `call` is a second run over the sources of a first
\* run that applied what it found.
SecondRun ==
  /\ call.op = "discover"
  /\ call.previous # None
  /\ AppliedRun(call.previous[1].options, call.previous[1].exitCode)
  /\ call.options.githubOrg = call.previous[1].options.githubOrg
  /\ call.options.dir = call.previous[1].options.dir
  /\ ret.exitCode = 0

RecordsOf(svcs) == { svcs[k] : k \in DOMAIN svcs }

\* C19: discover is idempotent: a second run over the same discovered set
\* reports added = 0 and updated = 0 and leaves the set of service records
\* as the first run left it.
C19_DiscoverIdempotent ==
  SecondRun =>
    /\ ret.json.added = 0
    /\ ret.json.updated = 0
    /\ RecordsOf(services) = RecordsOf(call.before)

\* C19 failing run: the catalog holds the service api with a description, the
\* directory holds the repository api, inferred without one: the second run
\* reports one update again and rewrites the record.
C19_Witness ==
  /\ SecondRun
  /\ ~ call.options.dryRun
  /\ discoverable = [github |-> <<>>, dir |-> <<Inferred("api")>>]
  /\ Len(call.before) = 1
  /\ call.before[1].name = "api"
  /\ call.before[1].description # None
  /\ ret.json.added = 0
  /\ ret.json.updated = 1
  /\ services # call.before

\* No two services of the collection share a name up to case
DistinctNames(svcs) ==
  \A j, k \in DOMAIN svcs :
    toLowerCase(svcs[j].name) = toLowerCase(svcs[k].name) => j = k

\* C20: discover never duplicates: run on a catalog in which no two services
\* share a name up to case, it leaves a catalog in which none do.
C20_DiscoverNeverDuplicates ==
  (call.op = "discover" /\ DistinctNames(call.before)) => DistinctNames(services)

\* C20 failing run: on an empty catalog, the organisation and the directory
\* both hold the repository api: the run adds two services named api.
C20_Witness ==
  /\ call.op = "discover"
  /\ call.before = <<>>
  /\ call.options = [githubOrg |-> "lists", dir |-> TRUE, dryRun |-> FALSE]
  /\ discoverable = [github |-> <<Inferred("api")>>, dir |-> <<Inferred("api")>>]
  /\ ret.json.added = 2
  /\ Len(services) = 2
  /\ services[1].name = "api"
  /\ services[2].name = "api"

\* The services and the systems whose owner field names a removed owner
OrphanedByRemoval(recs) ==
  { k \in DOMAIN recs : recs[k].owner # None /\ recs[k].owner[1] \in Removed
                          /\ recs[k].owner[1] \notin IdSet(owners) }

\* lint reports an orphaned_owner_ref error for the record
ReportedOrphan(rec, kind) ==
  \E i \in DOMAIN ret.json.results :
    /\ ret.json.results[i].type = "orphaned_owner_ref"
    /\ ret.json.results[i].severity = "error"
    /\ ret.json.results[i].entity = rec.name
    /\ ret.json.results[i].entityKind = kind

\* owner rm deleted the owner's record and nothing else: the other owners
\* stay, in their order, and so does every service and system.
OnlyOwnerDeleted ==
  /\ ret.json.deleted \in IdsOf(call.before.owners)
  /\ owners = SelectSeq(call.before.owners, LAMBDA o : o.id # ret.json.deleted)
  /\ services = call.before.services
  /\ systems = call.before.systems

\* C21: removing an owner leaves the services and systems that reference it
\* unchanged, and whenever lint runs later, with the owner still absent and
\* the reference still set, it reports an orphaned_owner_ref error for each
\* such service and system and exits with code 1.
C21_RemovedOwnerIsReported ==
  /\ (call.op = "owner rm" /\ ret.exitCode = 0) => OnlyOwnerDeleted
  /\ call.op = "lint" =>
       /\ \A k \in OrphanedByRemoval(services) : ReportedOrphan(services[k], "service")
       /\ \A k \in OrphanedByRemoval(systems) : ReportedOrphan(systems[k], "system")
       /\ (OrphanedByRemoval(services) \cup OrphanedByRemoval(systems) # {}
             => ret.exitCode = 1 /\ ~ ret.json.success)

\* C21 witness: an owner referenced by a service and a system was removed, an
\* owner was added since, and lint reports both references and exits with 1.
C21_Witness ==
  /\ call.op = "lint"
  /\ OrphanedByRemoval(services) # {}
  /\ OrphanedByRemoval(systems) # {}
  /\ owners # <<>>
  /\ ret.exitCode = 1
  /\ ret.json.errors >= 2

\* C22: the search index rebuilds when catalog files change: after any
\* writes and deletes, getSearchIndex returns an index built from exactly the
\* records now in the catalog; the cached index is reused only when it is
\* that index.
C22_SearchIndexIsCurrent ==
  call.op = "getSearchIndex" => ret = BuildIndex(services, systems, owners)

\* C22 failing run: the service s1 was indexed as checkout and rewritten as
\* payments, a text of the same size, within the same tick of the clock: the
\* cached index is reused and still holds checkout.
C22_Witness ==
  /\ call.op = "getSearchIndex"
  /\ call.reused
  /\ Len(services) = 1
  /\ services[1].name = "payments"
  /\ \E doc \in ret : doc.id = "service:s1" /\ doc.name = "checkout"

\* The nodes of the returned tree with children, and the positions whose id
\* the walk had visited before: the root's, and those of the nodes before it
\* in traversal order that lie above the depth limit
ExpandedIn(P) == { a \in DOMAIN P : P[a].childIds # <<>> }
VisitedBefore(P, a) ==
  {call.id} \cup { P[b].id : b \in { c \in 1..(a - 1) : ~GreaterEq(P[c].level, call.maxDepth) } }

\* C23: in a tree returned by walkDown or walkUp each id is expanded at most
\* once: at most one node per id has children, a node whose id is the root's
\* or was visited before has none, and there are no more expanded ids than
\* services.
C23_ExpandedAtMostOnce ==
  call.op \in {"walkDown", "walkUp"} =>
    LET P == Preorder(ret, 1, call.id)
    IN /\ \A a, b \in ExpandedIn(P) : P[a].id = P[b].id => a = b
       /\ \A a \in DOMAIN P : P[a].id \in VisitedBefore(P, a) => P[a].childIds = <<>>
       /\ Cardinality({ P[a].id : a \in ExpandedIn(P) }) <= Cardinality(IdsOf(services))

\* C23 witness: in a tree of walkUp an id is a node twice, the first with
\* children and the second, visited before, without.
C23_Witness ==
  /\ call.op = "walkUp"
  /\ LET P == Preorder(ret, 1, call.id)
     IN \E a, b \in DOMAIN P :
          /\ a < b
          /\ P[a].id = P[b].id
          /\ P[a].childIds # <<>>
          /\ P[b].childIds = <<>>
          /\ ~GreaterEq(P[b].level, call.maxDepth)

\* The services on a dependency cycle
CycleMembers(svcs) == { id \in IdsOf(svcs) : OnCycle(svcs, id) }

\* The dependency graph has exactly one cycle: the services on a cycle reach
\* each other and each has one edge to a service on a cycle.
OneCycle(svcs) ==
  LET W == CycleMembers(svcs)
  IN /\ W # {}
     /\ \A a, b \in W : b \in ReachableFrom(svcs, a)
     /\ \A a \in W : Cardinality({ e \in EdgeSet(svcs) : e[1] = a /\ e[2] \in W }) = 1

\* The findings whose origin is the service with the id
FindingsOf(id) == { k \in DOMAIN pairs : pairs[k][1] = id }

\* C24 as stated: when the dependency graph has exactly one cycle,
\* findCircularDeps returns exactly one circular_dependency finding.
C24_OneFindingPerCycle ==
  (call.op = "findCircularDeps" /\ OneCycle(services)) => Len(ret) = 1

\* C24 amended: when the dependency graph has exactly one cycle,
\* findCircularDeps returns exactly one finding per service on the cycle,
\* the service being its origin: the cycle is reported once from each of its
\* services, never twice from one.
C24_OneFindingPerCycleMember ==
  (call.op = "findCircularDeps" /\ OneCycle(services)) =>
    /\ Len(ret) = Len(pairs)
    /\ \A id \in CycleMembers(services) : Cardinality(FindingsOf(id)) = 1
    /\ Len(ret) >= Cardinality(CycleMembers(services))

\* C24 witness: the two-service cycle s1 -> s2 -> s1 alone: two findings, one
\* from each origin.
C24_Witness ==
  /\ call.op = "findCircularDeps"
  /\ EdgeSet(services) = {<<"s1", "s2">>, <<"s2", "s1">>}
  /\ OneCycle(services)
  /\ Len(ret) = 2
  /\ ret[1].entity # ret[2].entity

\* C25: each resolveDeps call is independent: the upward and the downward
\* walk each start from a visited set of their own, so the result for both
\* directions has the dependents of the "up" query and the dependencies of
\* the "down" query, which are the trees of walkUp and walkDown called alone.
C25_DirectionsIndependent ==
  (call.op = "resolveDeps" /\ call.direction = "undefined") =>
    /\ ret.dependents = resolveDeps(call.id, services, call.maxDepth, "up").dependents
    /\ ret.dependencies = resolveDeps(call.id, services, call.maxDepth, "down").dependencies
    /\ ret.dependents =
         walkUp(call.id, buildReverseIndex(services), call.maxDepth, None, None).nodes
    /\ ret.dependencies =
         walkDown(call.id, ServiceMapOf(services), call.maxDepth, None, None).nodes

\* C25 witness: a query in both directions from a service on a cycle: a
\* service the upward walk visited is expanded again by the downward walk.
C25_Witness ==
  /\ call.op = "resolveDeps"
  /\ call.direction = "undefined"
  /\ \E a \in DOMAIN ret.dependents, b \in DOMAIN ret.dependencies :
       /\ ret.dependents[a].id = ret.dependencies[b].id
       /\ ret.dependents[a].children # <<>>
       /\ ret.dependencies[b].children # <<>>

\* The service a finding names: the origin of the walk that found it
NamedBy(k) == pairs[k][1]

\* C26: every circular_dependency finding names a service that lies on a
\* dependency cycle itself; a service that only depends on a cycle is never
\* named.
C26_NamedServiceOnCycle ==
  call.op = "findCircularDeps" =>
    /\ Len(pairs) = Len(ret)
    /\ \A k \in DOMAIN ret : OnCycle(services, NamedBy(k))

\* C26 failing run: s1 depends on s2 and s2 on itself; the finding of the walk
\* from s1 names s1, which is on no cycle.
C26_Witness ==
  /\ call.op = "findCircularDeps"
  /\ EdgeSet(services) = {<<"s1", "s2">>, <<"s2", "s2">>}
  /\ ~ OnCycle(services, "s1")
  /\ \E k \in DOMAIN ret :
       /\ NamedBy(k) = "s1"
       /\ ret[k].entity = services[1].name
       /\ services[1].id = "s1"

\* C27: every service on a dependency cycle (a self-dependency included) is
\* named by at least one circular_dependency finding, whatever the walks
\* from other services reported before.
C27_CycleMembersNamed ==
  call.op = "findCircularDeps" =>
    \A i \in DOMAIN services :
      OnCycle(services, services[i].id) =>
        \E k \in DOMAIN ret :
          /\ IsCircularError(ret[k])
          /\ ret[k].entity = services[i].name
          /\ ret[k].entityKind = "service"

\* C27 witness: s1 and s2 depend on each other and s2 on itself: the walk
\* from s1 reports the self-dependency of s2 first, and s2 is named by a
\* finding of its own all the same.
C27_Witness ==
  /\ call.op = "findCircularDeps"
  /\ EdgeSet(services) = {<<"s1", "s2">>, <<"s2", "s1">>, <<"s2", "s2">>}
  /\ pairs = <<<<"s1", "s1">>, <<"s1", "s2">>, <<"s2", "s2">>>>
  /\ \E k \in DOMAIN ret : ret[k].entity = services[2].name

\* The ids a path of 1..d edges leads to from the ids of `from`
RECURSIVE WithinEdges(_, _, _)
WithinEdges(edges, from, d) ==
  IF d = 0 THEN {}
  ELSE LET next == { e[2] : e \in { x \in edges : x[1] \in from } }
       IN next \cup WithinEdges(edges, next, d - 1)

\* The dependency records read backwards: <<to id, from id>>
ReversedEdges(svcs) == { <<e[2], e[1]>> : e \in EdgeSet(svcs) }

\* The ids of the nodes of a forest
NodeIds(nodes) == { Preorder(nodes, 1, "")[k].id : k \in DOMAIN Preorder(nodes, 1, "") }

\* C28: with an integer depth limit d >= 1 and a known root, every service a
\* dependency path of at most d edges leads to from the root is a node of the
\* walkDown tree, and every service from which such a path leads to the root
\* is a node of the walkUp tree.
C28_CompleteUpToLimit ==
  (call.op \in {"walkDown", "walkUp"} /\ call.id \in IdsOf(services)
     /\ call.maxDepth.kind = "int" /\ call.maxDepth.n >= 1)
  => LET edges == IF call.op = "walkDown" THEN EdgeSet(services)
                  ELSE ReversedEdges(services)
     IN (WithinEdges(edges, {call.id}, call.maxDepth.n) \cap IdsOf(services))
          \subseteq NodeIds(ret)

\* C28 failing run, downwards: s5 depends on s4 and s3, s4 on s3, s3 on s2,
\* s2 on s1. s1 is three edges from s5 (s5, s3, s2, s1) and no node of
\* walkDown(s5, 3): s3 was expanded below s4, at the limit for s2.
C28_Witness ==
  /\ call.op = "walkDown"
  /\ call.id = "s5"
  /\ call.maxDepth = IntNum(3)
  /\ TargetsOf(services, "s5") = <<"s4", "s3">>
  /\ EdgeSet(services) = {<<"s5", "s4">>, <<"s5", "s3">>, <<"s4", "s3">>,
                          <<"s3", "s2">>, <<"s2", "s1">>}
  /\ "s1" \in WithinEdges(EdgeSet(services), {"s5"}, 3)
  /\ "s1" \notin NodeIds(ret)

\* maxDepth is a number greater than n
Exceeds(maxDepth, n) ==
  CASE maxDepth.kind = "int" -> maxDepth.n > n
    [] maxDepth.kind = "inf" -> maxDepth.n = 1
    [] OTHER -> FALSE

\* C29: with a maxDepth greater than the number of services, the ids of the
\* nodes of the walkDown tree of a known root are exactly the ids reachable
\* from the root by one or more dependency edges (missing targets included,
\* and the root itself when it lies on a cycle).
C29_WalkDownReachesAll ==
  (call.op = "walkDown" /\ call.id \in IdsOf(services)
     /\ Exceeds(call.maxDepth, Len(services)))
  => NodeIds(ret) = ReachableFrom(services, call.id)

\* C29 witness: s1 and s2 depend on each other, s2 also on a missing id, s3
\* is unreachable; walkDown(s1) with maxDepth 4 has the nodes s2, s1 and the
\* missing id, and not s3.
C29_Witness ==
  /\ call.op = "walkDown"
  /\ call.id = "s1"
  /\ call.maxDepth = IntNum(Len(services) + 1)
  /\ Len(services) = 3
  /\ EdgeSet(services) = {<<"s1", "s2">>, <<"s2", "s1">>, <<"s2", Ghost>>}
  /\ NodeIds(ret) = {"s1", "s2", Ghost}

\* maxDepth is a number >= 1
AtLeastOne(maxDepth) == Exceeds(maxDepth, 0)

\* Both lists of a resolveDeps result are empty
NothingResolved(result) == result.dependents = <<>> /\ result.dependencies = <<>>

\* The service with the id is among the orphans
AmongOrphans(orphans, id) == \E k \in DOMAIN orphans : orphans[k].id = id

\* C30: findOrphans and resolveDeps agree. In a catalog with unique ids, for
\* every service S and every maxDepth >= 1, findOrphans returns S exactly
\* when resolveDeps(S.id, services, maxDepth) has no dependents and no
\* dependencies: stated of the result of findOrphans against resolveDeps of
\* every service, and of the result of resolveDeps against findOrphans.
C30_OrphansAgreeWithResolveDeps ==
  /\ call.op = "findOrphans" =>
       \A i \in DOMAIN services :
         \A maxDepth \in { m \in DepthArgs : AtLeastOne(m) } :
           AmongOrphans(ret, services[i].id)
             <=> NothingResolved(resolveDeps(services[i].id, services, maxDepth,
                                             "undefined"))
  /\ (call.op = "resolveDeps" /\ call.direction = "undefined"
        /\ call.id \in IdsOf(services) /\ AtLeastOne(call.maxDepth))
       => (AmongOrphans(findOrphans(services), call.id) <=> NothingResolved(ret))

\* C30 witness: s1 depends on s2 and s3 on nothing; findOrphans returned s3
\* alone: s2 has no dependencies and is no orphan, s1 depends on it.
C30_Witness ==
  /\ call.op = "findOrphans"
  /\ Len(services) = 3
  /\ EdgeSet(services) = {<<"s1", "s2">>}
  /\ Len(ret) = 1
  /\ ret[1].id = "s3"
  /\ ~ NothingResolved(resolveDeps("s2", services, IntNum(1), "undefined"))
  /\ NothingResolved(resolveDeps("s3", services, IntNum(1), "undefined"))

====
